---- MODULE Spec2Model ----
(***************************************************************************)
(* A model of the JudgeD probabilistic Datalog core: terms, literals and   *)
(* clauses (judged/__init__.py), descriptive sentences and their BDDs      *)
(* (judged/worlds.py, datalog/bdd.py), the knowledge base and the tabled   *)
(* SLG provers (judged/logic.py).                                          *)
(*                                                                         *)
(* Encoding of terms.  A term is an integer: a constant is a number below  *)
(* VarBase, a variable a number from VarBase on; the fresh variable        *)
(* '_n' made by make_fresh_var is FreshBase + n.  Terms are interned in   *)
(* the source, so equality of terms is equality of these numbers.          *)
(***************************************************************************)
EXTENDS Integers, Sequences, FiniteSets, TLC

VarBase == 10
FreshBase == 100
Inf == 9999

\* Named terms used by the programs below: constants a, b, c and the
\* variables X, Y, Z, A, B, C.
K == [a |-> 1, b |-> 2, c |-> 3]

V == [X |-> VarBase + 1, Y |-> VarBase + 2, Z |-> VarBase + 3,
      A |-> VarBase + 4, B |-> VarBase + 5, C |-> VarBase + 6]

-----------------------------------------------------------------------------
(* Generic helpers on sequences and functions.                             *)

Range(s) == {s[i] : i \in DOMAIN s}

Min2(a, b) == IF a <= b THEN a ELSE b

Min3(a, b, c) == Min2(a, Min2(b, c))

RECURSIVE SeqOfSet(_)
SeqOfSet(S) == IF S = {} THEN <<>>
               ELSE LET x == CHOOSE y \in S : TRUE IN <<x>> \o SeqOfSet(S \ {x})

\* every enumeration of a finite set as a sequence without repetition
Perms(S) == {s \in [1..Cardinality(S) -> S] : Range(s) = S}

RECURSIVE Flatten(_)
Flatten(ss) == IF ss = <<>> THEN <<>> ELSE Head(ss) \o Flatten(Tail(ss))

\* position of the first element of s equal to x, 0 when there is none
FirstIndex(s, x) ==
    IF \E i \in DOMAIN s : s[i] = x
    THEN CHOOSE i \in DOMAIN s : s[i] = x /\ \A j \in 1..(i-1) : s[j] # x
    ELSE 0

\* list.remove(x): drops the first occurrence
RemoveFirst(s, x) ==
    LET i == FirstIndex(s, x)
    IN IF i = 0 THEN s ELSE SubSeq(s, 1, i-1) \o SubSeq(s, i+1, Len(s))

EmptyEnv == [x \in {} |-> 0]

-----------------------------------------------------------------------------
(* Terms: Constant and Variable.                                           *)

is_const(t) == t < VarBase

\* Variable.subst / Constant.subst: one look-up, no chasing
Term_subst(t, env) ==
    IF is_const(t) THEN t
    ELSE IF t \in DOMAIN env THEN env[t] ELSE t

\* Variable.chase / Constant.chase: follow the bindings to the end
RECURSIVE Term_chase(_, _)
Term_chase(t, env) ==
    IF is_const(t) THEN t
    ELSE IF t \in DOMAIN env THEN Term_chase(env[t], env) ELSE t

\* env[k] = v on a Python dict
Bind(env, k, v) == [x \in DOMAIN env \cup {k} |-> IF x = k THEN v ELSE env[x]]

\* term.unify(other, env) by double dispatch; the result is
\* [ok |-> FALSE] for None and [ok |-> TRUE, env |-> ...] otherwise.
Term_unify(t, other, env) ==
    IF is_const(t)
    THEN IF is_const(other)
         THEN [ok |-> FALSE, env |-> env]                     \* unify_const on a constant
         ELSE [ok |-> TRUE, env |-> Bind(env, other, t)]      \* other.unify_const(t)
    ELSE IF is_const(other)
         THEN [ok |-> TRUE, env |-> Bind(env, t, other)]      \* t.unify_const(other)
         ELSE [ok |-> TRUE, env |-> Bind(env, t, other)]      \* other.unify_var(t): env[t] = other

-----------------------------------------------------------------------------
(* Literals.  pred is <<name, arity>> (Predicate is interned by that key). *)

Lit(name, terms) == [pred |-> <<name, Len(terms)>>, terms |-> terms, polarity |-> TRUE]

NegLit(name, terms) == [pred |-> <<name, Len(terms)>>, terms |-> terms, polarity |-> FALSE]

\* Literal.id: polarity, predicate id and the term ids, each length-prefixed,
\* so the string is an injective image of this triple.
Literal_id(l) == <<l.polarity, l.pred, l.terms>>

LitVars(l) == {l.terms[i] : i \in DOMAIN l.terms} \ {t \in Range(l.terms) : is_const(t)}

is_grounded(l) == \A i \in DOMAIN l.terms : is_const(l.terms[i])

invert(l) == [l EXCEPT !.polarity = ~l.polarity]

Literal_subst(l, env) ==
    IF DOMAIN env = {} THEN l
    ELSE [l EXCEPT !.terms = [i \in DOMAIN l.terms |-> Term_subst(l.terms[i], env)]]

\* Variable.tag(i, env) with the mistake of ignoring the recorded tag
Variable_tag_positional(t, i, env) == [tag |-> 0 - i, env |-> env]

\* Variable.tag(i, env) / Constant.tag(i, env).  The tag 'v<i>' of a variable
\* first met at (1-based) position i is the negative number -i; a constant's
\* tag is its id.  The two never collide in the source ('c$..' against 'v..').
Variable_tag(t, i, env) ==
    IF t \in DOMAIN env THEN [tag |-> env[t], env |-> env]
    ELSE [tag |-> 0 - i, env |-> Bind(env, t, 0 - i)]

RECURSIVE TagTerms(_, _, _)
TagTerms(terms, i, env) ==
    IF i > Len(terms) THEN <<>>
    ELSE IF is_const(terms[i]) THEN <<terms[i]>> \o TagTerms(terms, i + 1, env)
    ELSE LET r == Variable_tag(terms[i], i, env)
         IN <<r.tag>> \o TagTerms(terms, i + 1, r.env)

\* Literal.tag
Literal_tag(l) == <<l.polarity, l.pred, TagTerms(l.terms, 1, EmptyEnv)>>

RECURSIVE UnifyFrom(_, _, _, _)
UnifyFrom(l, other, i, env) ==
    IF i > l.pred[2] THEN [ok |-> TRUE, env |-> env]
    ELSE LET term_i == Term_chase(l.terms[i], env)
             other_i == Term_chase(other.terms[i], env)
         IN IF term_i = other_i THEN UnifyFrom(l, other, i + 1, env)
            ELSE LET r == Term_unify(term_i, other_i, env)
                 IN IF r.ok THEN UnifyFrom(l, other, i + 1, r.env) ELSE r

\* Literal.unify
Literal_unify(l, other) ==
    IF l.pred # other.pred THEN [ok |-> FALSE, env |-> EmptyEnv]
    ELSE UnifyFrom(l, other, 1, EmptyEnv)

-----------------------------------------------------------------------------
(* Descriptive sentences (judged/worlds.py).  A label fragment is          *)
(* <<"lc", name>> (LabelConstant) or <<"lf", name, terms>> (LabelFunction);*)
(* a sentence is <<"top">>, <<"bottom">>, <<"label", partitioning, part>>, *)
(* <<"not", s>>, <<"and", terms>> or <<"or", terms>>.                      *)

Top == <<"top">>

Bottom == <<"bottom">>

LC(name) == <<"lc", name>>

LF(name, terms) == <<"lf", name, terms>>

Label(p, v) == <<"label", p, v>>

Negation(s) == <<"not", s>>

Conjunction(terms) == <<"and", terms>>

Disjunction(terms) == <<"or", terms>>

\* LabelFragment.is_grounded
Fragment_is_grounded(f) ==
    IF f[1] = "lc" THEN TRUE ELSE \A i \in DOMAIN f[3] : is_const(f[3][i])

\* LabelFragment.variables
Fragment_variables(f) ==
    IF f[1] = "lc" THEN {} ELSE {f[3][i] : i \in DOMAIN f[3]} \ {t \in Range(f[3]) : is_const(t)}

\* LabelFragment.subst
Fragment_subst(f, env) ==
    IF f[1] = "lc" \/ DOMAIN env = {} THEN f
    ELSE <<"lf", f[2], [i \in DOMAIN f[3] |-> Term_subst(f[3][i], env)]>>

\* Sentence.labels: the set of (partitioning, part) pairs
RECURSIVE labels(_)
labels(s) ==
    CASE s[1] = "label" -> {<<s[2], s[3]>>}
      [] s[1] = "not" -> labels(s[2])
      [] s[1] \in {"and", "or"} -> UNION {labels(s[2][i]) : i \in DOMAIN s[2]}
      [] OTHER -> {}

\* Sentence.is_grounded
RECURSIVE Sentence_is_grounded(_)
Sentence_is_grounded(s) ==
    CASE s[1] = "label" -> Fragment_is_grounded(s[2]) /\ Fragment_is_grounded(s[3])
      [] s[1] = "not" -> Sentence_is_grounded(s[2])
      [] s[1] \in {"and", "or"} -> \A i \in DOMAIN s[2] : Sentence_is_grounded(s[2][i])
      [] OTHER -> TRUE

\* the variables of the labels of a sentence
SentenceVars(s) ==
    UNION {Fragment_variables(l[1]) \cup Fragment_variables(l[2]) : l \in labels(s)}

\* The checker handed to ask.  [kind |-> "true"] is ExactContext.check, which
\* answers True for every label; [kind |-> "world", choices |-> w] is the
\* checker of the world w, a function from every partitioning to its chosen
\* part: check(key, part) is choices[key] == part.  The bound methods
\* DeterministicContext.check and MontecarloContext.check read and write the
\* dict `choices` of their context.
TrueChecker == [kind |-> "true"]

WorldChecker(w) == [kind |-> "world", choices |-> w]

DeterministicChecker == [kind |-> "deterministic"]

MontecarloChecker == [kind |-> "montecarlo"]

\* the outcome of evaluating a sentence: the Python value returned ("True",
\* "False" or "None"), the exception raised, and the state st of the
\* context afterwards: its choices, and the history of the calls of
\* MontecarloContext.check
EvalResult(val, st, e) == [val |-> val, st |-> st, err |-> e]

PyBool(b) == IF b THEN "True" ELSE "False"

\* the exception of `raise JudgedError(...)` in judged/context.py, a module
\* that does not import the name JudgedError
ContextRaise == "NameError: JudgedError"

CheckEvent(key, part, picked, val) == [key |-> key, part |-> part, picked |-> picked, val |-> val]

\* a check that answers for the chosen part and does not store it
MontecarloChecked_forgotten(key, part, st, chosen, picked) ==
    EvalResult(PyBool(chosen = part),
               [choices |-> st.choices,
                checks |-> Append(st.checks, CheckEvent(key, part, picked, PyBool(chosen = part)))],
               "")

\* MontecarloContext.check once the part of the partitioning is chosen: the
\* choice is stored when it was picked by this call
MontecarloChecked(key, part, st, chosen, picked) ==
    EvalResult(PyBool(chosen = part),
               [choices |-> [x \in DOMAIN st.choices \cup {key} |->
                                IF x = key THEN chosen ELSE st.choices[x]],
                checks |-> Append(st.checks, CheckEvent(key, part, picked, PyBool(chosen = part)))],
               "")

\* checker(key, part) in the state st; pick[key] is what
\* MontecarloContext.pick(key) returns when it is called now: <<part>>, or
\* <<>> when it raises
check(chk, key, part, st, pick) ==
    CASE chk.kind = "true" -> EvalResult("True", st, "")
      [] chk.kind = "world" -> EvalResult(PyBool(chk.choices[key] = part), st, "")
      [] chk.kind = "deterministic" ->
            IF key \in DOMAIN st.choices THEN EvalResult("None", st, "")
            ELSE EvalResult("None", st, ContextRaise)
      [] chk.kind = "montecarlo" ->
            IF key \in DOMAIN st.choices
            THEN MontecarloChecked(key, part, st, st.choices[key], FALSE)
            ELSE IF pick[key] = <<>> THEN EvalResult("None", st, ContextRaise)
            ELSE MontecarloChecked(key, part, st, pick[key][1], TRUE)

RECURSIVE evaluate(_, _, _, _)
RECURSIVE EvalTerms(_, _, _, _, _)

\* `not sub.evaluate(checker)`
EvalNot(r) == IF r.err # "" THEN r ELSE [r EXCEPT !.val = PyBool(r.val # "True")]

\* the test of one term in Conjunction.evaluate (conj: `== False` returns
\* False) or Disjunction.evaluate (`== True` returns True), then the rest
EvalNext(r, rest, chk, pick, conj) ==
    IF r.err # "" THEN r
    ELSE IF conj /\ r.val = "False" THEN r
    ELSE IF ~conj /\ r.val = "True" THEN r
    ELSE EvalTerms(rest, chk, r.st, pick, conj)

EvalTerms(terms, chk, st, pick, conj) ==
    IF terms = <<>> THEN EvalResult(PyBool(conj), st, "")
    ELSE EvalNext(evaluate(Head(terms), chk, st, pick), Tail(terms), chk, pick, conj)

\* Sentence.evaluate(checker)
evaluate(s, chk, st, pick) ==
    CASE s[1] = "top" -> EvalResult("True", st, "")
      [] s[1] = "bottom" -> EvalResult("False", st, "")
      [] s[1] = "label" -> check(chk, s[2], s[3], st, pick)
      [] s[1] = "not" -> EvalNot(evaluate(s[2], chk, st, pick))
      [] s[1] = "and" -> EvalTerms(s[2], chk, st, pick, TRUE)
      [] s[1] = "or" -> EvalTerms(s[2], chk, st, pick, FALSE)

\* worlds.conjunct for two terms: the terms other than Top, as a set.  The
\* order of the terms of the Conjunction is the iteration order of that set;
\* the BDD of the sentence does not depend on it.
conjunct(l, r) ==
    LET used == {l, r} \ {Top}
    IN IF used = {} THEN Top
       ELSE IF Cardinality(used) = 1 THEN CHOOSE t \in used : TRUE
       ELSE Conjunction(<<l, r>>)

\* worlds.disjunct with only the first collected sentence kept
disjunct_first(terms) == IF terms = <<>> THEN Bottom ELSE terms[1]

\* worlds.disjunct: the terms other than Bottom, as a set
disjunct(terms) ==
    LET used == Range(terms) \ {Bottom}
    IN IF used = {} THEN Bottom
       ELSE IF Cardinality(used) = 1 THEN CHOOSE t \in used : TRUE
       ELSE Disjunction(SeqOfSet(used))

-----------------------------------------------------------------------------
(* Clauses.                                                                *)

Clause(head, body, delayed, sentence) ==
    [head |-> head, body |-> body, delayed |-> delayed, sentence |-> sentence]

Fact(head) == Clause(head, <<>>, <<>>, Top)

Rule(head, body) == Clause(head, body, <<>>, Top)

\* iteration over a clause: the body, then the delayed literals
ClauseLits(c) == c.body \o c.delayed

\* Clause.subst: the literals are substituted, the sentence is kept as it is
Clause_subst(c, env) ==
    IF DOMAIN env = {} THEN c
    ELSE [head |-> Literal_subst(c.head, env),
          body |-> [i \in DOMAIN c.body |-> Literal_subst(c.body[i], env)],
          delayed |-> [i \in DOMAIN c.delayed |-> Literal_subst(c.delayed[i], env)],
          sentence |-> c.sentence]

\* Literal.shuffle over a list of terms: every variable not yet in env gets
\* the next fresh variable; n counts make_fresh_var.counter.
RECURSIVE ShuffleTerms(_, _, _)
ShuffleTerms(terms, env, n) ==
    IF terms = <<>> THEN [env |-> env, n |-> n]
    ELSE LET t == Head(terms)
         IN IF is_const(t) \/ t \in DOMAIN env
            THEN ShuffleTerms(Tail(terms), env, n)
            ELSE ShuffleTerms(Tail(terms), Bind(env, t, FreshBase + n + 1), n + 1)

\* Clause.rename: fresh variables for the variables of body and delayed
\* (never for the head alone).  Gives the renamed clause and the counter.
Clause_rename(c, n) ==
    LET lits == ClauseLits(c)
        r == ShuffleTerms(Flatten([i \in DOMAIN lits |-> lits[i].terms]), EmptyEnv, n)
    IN [clause |-> Clause_subst(c, r.env), n |-> r.n]

-----------------------------------------------------------------------------
(* The knowledge base (Knowledge in judged/logic.py).  db maps a predicate *)
(* to its clauses in insertion order: a Python dict keyed by clause id.    *)
(* A clause id is built of the ids of the literals, which are injective,   *)
(* and of the string of the sentence, which is not: an `and` or `or` of    *)
(* one term prints as the term, and one of no terms as `()`.               *)

VARIABLES db, kbOp, kbPrev

\* prim maps a predicate to the generator coupled to it (Knowledge.prim);
\* registered is the history of the calls of add_primitive
VARIABLES prim, registered

kbVars == <<db, kbOp, kbPrev, prim, registered>>

EmptyDb == [p \in {} |-> <<>>]

litsVars(lits) == UNION {LitVars(lits[i]) : i \in DOMAIN lits}

\* Knowledge.is_safe
is_safe(clause) ==
    LET lits == ClauseLits(clause)
        head_vars == LitVars(clause.head)
        body_vars == litsVars(lits)
        pos_vars == UNION {LitVars(lits[i]) : i \in {j \in DOMAIN lits : lits[j].polarity}}
        neg_vars == UNION {LitVars(lits[i]) : i \in {j \in DOMAIN lits : ~lits[j].polarity}}
    IN head_vars \subseteq body_vars /\ neg_vars \subseteq pos_vars

\* repr(sentence), which is str(sentence): Nary.nary2string and the
\* __str__ of the other classes
RECURSIVE Sentence_repr(_)
Sentence_repr(s) ==
    CASE s[1] \in {"and", "or"} ->
            IF Len(s[2]) = 1 THEN Sentence_repr(s[2][1])
            ELSE IF Len(s[2]) = 0 THEN <<"()">>
            ELSE <<s[1], [i \in DOMAIN s[2] |-> Sentence_repr(s[2][i])]>>
      [] s[1] = "not" -> <<"not", Sentence_repr(s[2])>>
      [] OTHER -> s

\* Clause.id
Clause_id(c) == <<c.head, c.body, c.delayed, Sentence_repr(c.sentence)>>

\* db.setdefault(pred, dict())[clause.id] = clause: a new id is added at the
\* end, a known id keeps its place and gets the new clause
Store(d, clause) ==
    LET pred == clause.head.pred
        old == IF pred \in DOMAIN d THEN d[pred] ELSE <<>>
        new == IF \E i \in DOMAIN old : Clause_id(old[i]) = Clause_id(clause)
               THEN [i \in DOMAIN old |->
                        IF Clause_id(old[i]) = Clause_id(clause) THEN clause ELSE old[i]]
               ELSE Append(old, clause)
    IN [q \in DOMAIN d \cup {pred} |-> IF q = pred THEN new ELSE d[q]]

\* db.pop(clause.id, None) on the clauses of one predicate
PopId(old, clause) ==
    IF \E i \in DOMAIN old : Clause_id(old[i]) = Clause_id(clause)
    THEN RemoveFirst(old, CHOOSE x \in Range(old) : Clause_id(x) = Clause_id(clause))
    ELSE old

\* Knowledge.assert_clause: raised tells whether JudgedError was raised
assert_clause(d, clause) ==
    IF ~is_safe(clause) THEN [raised |-> TRUE, db |-> d]
    ELSE [raised |-> FALSE, db |-> Store(d, clause)]

\* a retract_clause that keeps the entry of a predicate left without clauses
retract_clause_keeps_entry(d, clause) ==
    IF clause.head.pred \notin DOMAIN d THEN d
    ELSE [d EXCEPT ![clause.head.pred] = PopId(@, clause)]

\* Knowledge.retract_clause
retract_clause(d, clause) ==
    LET pred == clause.head.pred
    IN IF pred \notin DOMAIN d THEN d
       ELSE LET left == PopId(d[pred], clause)
            IN IF left = <<>> THEN [q \in DOMAIN d \ {pred} |-> d[q]]
               ELSE [d EXCEPT ![pred] = left]

\* primitives.equals_predicate: the clauses the built-in =/2 yields
equals_predicate(literal) ==
    LET a == literal.terms[1]
        b == literal.terms[2]
        r == Term_unify(a, b, EmptyEnv)
        a1 == IF r.ok THEN Term_subst(a, r.env) ELSE a
        b1 == IF r.ok THEN Term_subst(b, r.env) ELSE b
    IN IF a1 = b1 THEN <<Clause(Lit("=", <<a1, b1>>), <<>>, <<>>, Top)>> ELSE <<>>

\* a generator in the style of the test's testpred: the literal itself as a
\* fact when its first term is a constant, else one fact per constant
testpred(literal, consts) ==
    IF is_const(literal.terms[1]) THEN <<Clause(literal, <<>>, <<>>, Top)>>
    ELSE [i \in DOMAIN consts |->
             Clause([literal EXCEPT !.terms = <<consts[i]>>], <<>>, <<>>, Top)]

\* the generators: primitives.equals_predicate, or a testpred over constants
EqualsGenerator == [kind |-> "equals", consts |-> <<>>]

TestGenerator(consts) == [kind |-> "testpred", consts |-> consts]

\* the clauses a generator yields for a literal
Generate(gen, literal) ==
    IF gen.kind = "equals" THEN equals_predicate(literal) ELSE testpred(literal, gen.consts)

\* Knowledge.add_primitive
add_primitive(pr, predicate, gen) ==
    [q \in DOMAIN pr \cup {predicate} |-> IF q = predicate THEN gen ELSE pr[q]]

\* Knowledge.prim after Knowledge.__init__: register_primitives
BuiltinPrim == add_primitive([q \in {} |-> EqualsGenerator], <<"=", 2>>, EqualsGenerator)

\* Knowledge.clauses: the primitive's clauses, then the asserted ones
kb_clauses(pr, d, literal) ==
    (IF literal.pred \in DOMAIN pr THEN Generate(pr[literal.pred], literal) ELSE <<>>)
    \o (IF literal.pred \in DOMAIN d THEN d[literal.pred] ELSE <<>>)

\* Knowledge.clauses of a knowledge base with the built-in primitive only
clauses(d, literal) == kb_clauses(BuiltinPrim, d, literal)

StoredClauses(d) == UNION {Range(d[p]) : p \in DOMAIN d}

\* Knowledge.parts
parts(d, partitioning) ==
    {l[2] : l \in {m \in UNION {labels(c.sentence) : c \in StoredClauses(d)} :
                      m[1] = partitioning}}

-----------------------------------------------------------------------------
(* Ordered BDDs (datalog/bdd.py).  A node is <<root, high, low>>; the      *)
(* sinks ZERO and ONE carry the roots -1 and -2.  Nodes are interned, so   *)
(* identity of nodes is equality of these tuples.  The registry            *)
(* `variables_rev` is the sequence of BDD variable names in the order of   *)
(* their first use: the name at position i has the identifier i - 1.       *)

ZERO == <<0 - 1>>

ONE == <<0 - 2>>

\* bdd._node
bdd_node(root, high, low) == IF high = low THEN high ELSE <<root, high, low>>

\* bdd._neg
RECURSIVE bdd_neg(_)
bdd_neg(n) ==
    IF n = ZERO THEN ONE
    ELSE IF n = ONE THEN ZERO
    ELSE bdd_node(n[1], bdd_neg(n[2]), bdd_neg(n[3]))

\* bdd._restrict with the point {root: value}
RECURSIVE bdd_restrict(_, _, _)
bdd_restrict(n, root, value) ==
    IF n \in {ZERO, ONE} THEN n
    ELSE IF n[1] = root
         THEN bdd_restrict(IF value = ONE THEN n[2] ELSE n[3], root, value)
         ELSE bdd_node(n[1], bdd_restrict(n[2], root, value), bdd_restrict(n[3], root, value))

\* bdd._ite
RECURSIVE bdd_ite(_, _, _)
bdd_ite(f, g, h) ==
    IF g = ONE /\ h = ZERO THEN f
    ELSE IF g = ZERO /\ h = ONE THEN bdd_neg(f)
    ELSE IF f = ONE THEN g
    ELSE IF f = ZERO THEN h
    ELSE IF g = h THEN g
    ELSE LET roots == {n[1] : n \in {m \in {f, g, h} : ~(m[1] < 0)}}
             root == CHOOSE x \in roots : \A y \in roots : x <= y
         IN bdd_node(root,
                     bdd_ite(bdd_restrict(f, root, ONE), bdd_restrict(g, root, ONE),
                             bdd_restrict(h, root, ONE)),
                     bdd_ite(bdd_restrict(f, root, ZERO), bdd_restrict(g, root, ZERO),
                             bdd_restrict(h, root, ZERO)))

\* BDD.__and__, BDD.__or__, BDD.__invert__
bdd_and(a, b) == bdd_ite(a, b, ZERO)

bdd_or(a, b) == bdd_ite(a, ONE, b)

\* bdd.variable on a registry that already holds the name
bdd_variable(reg, name) == bdd_node(FirstIndex(reg, name) - 1, ONE, ZERO)

\* the registry after bdd.variable was called for each name of a sequence
RECURSIVE Register(_, _)
Register(reg, names) ==
    IF names = <<>> THEN reg
    ELSE Register(IF Head(names) \in Range(reg) THEN reg ELSE Append(reg, Head(names)),
                  Tail(names))

\* the labels of a sentence in the order create_bdd meets them
RECURSIVE LabelSeq(_)
LabelSeq(s) ==
    CASE s[1] = "label" -> << <<s[2], s[3]>> >>
      [] s[1] = "not" -> LabelSeq(s[2])
      [] s[1] \in {"and", "or"} -> Flatten([i \in DOMAIN s[2] |-> LabelSeq(s[2][i])])
      [] OTHER -> <<>>

RECURSIVE create_bdd(_, _)
RECURSIVE FoldBdd(_, _, _, _)
\* the loop of Conjunction.create_bdd (conj) and Disjunction.create_bdd
FoldBdd(terms, reg, conj, res) ==
    IF terms = <<>> THEN res
    ELSE LET t == create_bdd(Head(terms), reg)
         IN FoldBdd(Tail(terms), reg, conj, IF conj THEN bdd_and(res, t) ELSE bdd_or(res, t))

\* Sentence.create_bdd
create_bdd(s, reg) ==
    CASE s[1] = "top" -> ONE
      [] s[1] = "bottom" -> ZERO
      [] s[1] = "label" -> bdd_variable(reg, <<s[2], s[3]>>)
      [] s[1] = "not" -> bdd_neg(create_bdd(s[2], reg))
      [] s[1] = "and" -> FoldBdd(s[2], reg, TRUE, ONE)
      [] s[1] = "or" -> FoldBdd(s[2], reg, FALSE, ZERO)

\* the partitionings of a set of labels that have more than one known part
ExclKeys(lbls, d) == {k \in {l[1] : l \in lbls} : Cardinality(parts(d, k)) > 1}

\* the names exclusion_matrix hands to bdd.variable
ExclNames(lbls, d) == UNION {{<<k, v>> : v \in parts(d, k)} : k \in ExclKeys(lbls, d)}

\* `res = sub if res == None else res & sub` (conj) or `res | sub`; <<>> is None
Accumulate(res, sub, conj) ==
    IF res = <<>> THEN sub ELSE IF conj THEN bdd_and(res, sub) ELSE bdd_or(res, sub)

\* one part chosen and no other part excluded
ExclOther_chosen_only(key, id, others, reg, res) == res

\* one part chosen and every other part of the group excluded
RECURSIVE ExclOther(_, _, _, _, _)
ExclOther(key, id, others, reg, res) ==
    IF others = <<>> THEN res
    ELSE ExclOther(key, id, Tail(others), reg,
                   IF Head(others) = id THEN res
                   ELSE bdd_and(res, bdd_neg(bdd_variable(reg, <<key, Head(others)>>))))

RECURSIVE ExclGroup(_, _, _, _, _)
ExclGroup(key, ids, group, reg, res) ==
    IF ids = <<>> THEN res
    ELSE ExclGroup(key, Tail(ids), group, reg,
                   Accumulate(res,
                              ExclOther(key, Head(ids), group, reg,
                                        bdd_variable(reg, <<key, Head(ids)>>)),
                              FALSE))

RECURSIVE ExclKeysFold(_, _, _, _)
ExclKeysFold(keys, d, reg, res) ==
    IF keys = <<>> THEN res
    ELSE ExclKeysFold(Tail(keys), d, reg,
                      Accumulate(res,
                                 ExclGroup(Head(keys), SeqOfSet(parts(d, Head(keys))),
                                           SeqOfSet(parts(d, Head(keys))), reg, <<>>),
                                 TRUE))

\* an exclusion matrix that constrains nothing
exclusion_matrix_none(lbls, d, reg) == <<>>

\* worlds.exclusion_matrix; <<>> stands for None
exclusion_matrix(lbls, d, reg) == ExclKeysFold(SeqOfSet(ExclKeys(lbls, d)), d, reg, <<>>)

\* `bdd & excl` if excl is not None
Restricted(b, excl) == IF excl = <<>> THEN b ELSE bdd_and(b, excl)

\* the registry after worlds.falsehood(s, kb) or one side of worlds.equivalent
RegisterSentence(reg, s, d) ==
    Register(Register(reg, LabelSeq(s)), SeqOfSet(ExclNames(labels(s), d)))

\* worlds.falsehood, on a registry that holds the names it uses
falsehood(s, d, reg) ==
    Restricted(create_bdd(s, reg), exclusion_matrix(labels(s), d, reg)) = ZERO

\* the comparison of worlds.equivalent under the exclusion matrix excl
EquivalentUnder(lbdd, rbdd, excl) == Restricted(lbdd, excl) = Restricted(rbdd, excl)

\* worlds.equivalent, on a registry that holds the names it uses; the
\* assertion that both sides are grounded is EquivalentAsserts
equivalent(l, r, d, reg) ==
    EquivalentUnder(create_bdd(l, reg), create_bdd(r, reg),
                    exclusion_matrix(labels(l) \cup labels(r), d, reg))

EquivalentAsserts(l, r) == Sentence_is_grounded(l) /\ Sentence_is_grounded(r)

RegisterPair(reg, l, r, d) ==
    Register(Register(Register(reg, LabelSeq(l)), LabelSeq(r)),
             SeqOfSet(ExclNames(labels(l) \cup labels(r), d)))

-----------------------------------------------------------------------------
(* The provers (Prover and ExactProver in judged/logic.py).                *)
(*                                                                         *)
(* The recursive procedures of the source are run as a machine with an     *)
(* explicit call stack.  A machine m is the record                         *)
(*   subgoals  the table: tag -> Subgoal                                   *)
(*   stack     the list of Frames; a frame names its subgoal by tag        *)
(*   count     the next depth-first number                                 *)
(*   checker   the checker of the running ask                              *)
(*   mins      the Mins objects made so far; a Mins is passed by           *)
(*             reference, so the calls hold its index in this list         *)
(*   ctl       the call stack, innermost call first                        *)
(*   fresh     make_fresh_var.counter (a module global)                    *)
(*   reg       the BDD variable registry (a module global)                 *)
(*   err       "" or the exception that ended the ask                      *)
(* kind is "base" for Prover and "exact" for ExactProver.                  *)

Subgoal(literal, poss, negs) ==
    [literal |-> literal, anss |-> {}, poss |-> poss, negs |-> negs, comp |-> FALSE]

Waiter(literal, clause, selected) ==
    [literal |-> literal, clause |-> clause, selected |-> selected]

Frame(tag, dfn, poslink, neglink) ==
    [subgoal |-> tag, dfn |-> dfn, poslink |-> poslink, neglink |-> neglink]

Mins(posmin, negmin) == [posmin |-> posmin, negmin |-> negmin]

\* dict[key] = value
Put(f, k, v) == [x \in DOMAIN f \cup {k} |-> IF x = k THEN v ELSE f[x]]

\* an exception leaves the tables as they are and unwinds every call
Raise(m, e) == [m EXCEPT !.err = e, !.ctl = <<>>]

\* the history of the running ask gets the event e
Note(m, e) == [m EXCEPT !.events = @ \cup {e}]

\* slg_negative appends the waiter to the negs of the subgoal of selected
WaitsEvent(literal, clause, selected) ==
    [event |-> "waits", literal |-> literal, clause |-> clause, selected |-> <<selected>>]

\* the waiting clause of the subgoal of literal was resolved or factored with
\* the answer, and the result went on to slg_newclause
FedEvent(factor, literal, clause, answer) ==
    [event |-> IF factor THEN "factor" ELSE "resolve", literal |-> literal,
     clause |-> clause, selected |-> <<answer>>]

\* slg_complete pops the frame of a subgoal while the waiter is in its negs
CompletedEvent(sg, waiter) ==
    [event |-> IF sg.anss = {} THEN "completed without answers"
               ELSE "completed with answers",
     literal |-> waiter.literal, clause |-> waiter.clause,
     selected |-> <<waiter.selected>>]

Push(m, frames) == [m EXCEPT !.ctl = frames \o @]

\* the stack frame lookup: the first frame of the subgoal, 0 when none
FrameIndex(stack, tag) ==
    IF \E i \in DOMAIN stack : stack[i].subgoal = tag
    THEN CHOOSE i \in DOMAIN stack :
            stack[i].subgoal = tag /\ \A j \in 1..(i-1) : stack[j].subgoal # tag
    ELSE 0

\* Prover.allows
allows(m, sentence) ==
    evaluate(sentence, m.checker, [choices |-> m.choices, checks |-> m.checks], m.oracle)

\* a result that may be None: none tells so; n and reg are the fresh-variable
\* counter and the BDD registry after the call
Result(none, clause, n, reg) == [none |-> none, clause |-> clause, n |-> n, reg |-> reg]

\* the end of ExactProver.slg_resolve with the test for a falsehood left out
ExactResolvent_unchecked(d, reg, c, env, n) == Result(FALSE, Clause_subst(c, env), n, reg)

\* the end of ExactProver.slg_resolve: the resolvent c, before the
\* substitution, is given up when its sentence is a falsehood
ExactResolvent(d, reg, c, env, n) ==
    IF falsehood(c.sentence, d, reg) THEN Result(TRUE, c, n, reg)
    ELSE Result(FALSE, Clause_subst(c, env), n, reg)

\* slg_resolve after `renamed = other.rename()`
Resolvent(kind, d, reg, clause, selected, other, rn) ==
    LET u == Literal_unify(selected, rn.clause.head)
        body == Flatten([i \in DOMAIN clause.body |->
                           IF clause.body[i] = selected THEN rn.clause.body
                           ELSE <<clause.body[i]>>])
    IN IF ~u.ok THEN Result(TRUE, clause, rn.n, reg)
       ELSE IF kind = "exact"
       THEN ExactResolvent(d,
                           RegisterSentence(reg, conjunct(clause.sentence, other.sentence), d),
                           Clause(clause.head, body, clause.delayed,
                                  conjunct(clause.sentence, other.sentence)),
                           u.env, rn.n)
       ELSE Result(FALSE, Clause_subst(Clause(clause.head, body, clause.delayed, Top), u.env),
                   rn.n, reg)

\* Prover.slg_resolve and ExactProver.slg_resolve
slg_resolve(kind, d, reg, clause, selected, other, n) ==
    IF clause.body = <<>> THEN Result(TRUE, clause, n, reg)
    ELSE Resolvent(kind, d, reg, clause, selected, other, Clause_rename(other, n))

\* slg_factor after `renamed = other.rename()`
Factor(kind, reg, clause, selected, other, rn) ==
    LET u == Literal_unify(selected, rn.clause.head)
        body == SelectSeq(clause.body, LAMBDA lit : lit # selected)
        delayed == Append(clause.delayed, selected)
        sentence == IF kind = "exact" THEN conjunct(clause.sentence, other.sentence) ELSE Top
    IN IF ~u.ok THEN Result(TRUE, clause, rn.n, reg)
       ELSE Result(FALSE, Clause_subst(Clause(clause.head, body, delayed, sentence), u.env),
                   rn.n, reg)

\* an slg_factor that finds no factor for any answer
slg_factor_none(kind, reg, clause, selected, other, n) ==
    Result(TRUE, clause, n, reg)

\* Prover.slg_factor and ExactProver.slg_factor
slg_factor(kind, reg, clause, selected, other, n) ==
    IF other.delayed = <<>> THEN Result(TRUE, clause, n, reg)
    ELSE Factor(kind, reg, clause, selected, other, Clause_rename(other, n))

\* a select that takes the first body literal whatever it is
select_first(clause) ==
    IF clause.body = <<>> THEN <<>> ELSE <<clause.body[1]>>

\* Prover.select: <<>> is None, otherwise the one selected literal
select(clause) ==
    LET body == clause.body
        pos == {i \in DOMAIN body : body[i].polarity}
        neg == {i \in DOMAIN body : ~body[i].polarity /\ is_grounded(body[i])}
        least(S) == CHOOSE i \in S : \A j \in S : i <= j
    IN IF body = <<>> THEN <<>>
       ELSE IF pos # {} THEN <<body[least(pos)]>>
       ELSE IF neg # {} THEN <<body[least(neg)]>>
       ELSE <<body[1]>>

\* Prover.answer_subsumed_by and ExactProver.answer_subsumed_by
answer_subsumed_by(kind, d, reg, clause, answers) ==
    IF kind = "exact"
    THEN \E cl \in answers :
            cl.head = clause.head /\ equivalent(cl.sentence, clause.sentence, d, reg)
    ELSE \E cl \in answers : cl.head = clause.head

\* Prover.other_answer_with_same_head
other_answer_with_same_head(clause, answers) ==
    \E a \in answers : a # clause /\ a.head = clause.head

\* fact_in_collection of slg_positive
fact_in_collection(kind, fact, collection) ==
    IF kind = "exact"
    THEN \E cl \in collection : cl.head = fact /\ cl.body = <<>> /\ cl.delayed = <<>>
    ELSE \E cl \in collection : cl.head = fact

\* Prover.clause_remove_lit
clause_remove_lit(clause, lit) ==
    Clause(clause.head, RemoveFirst(clause.body, lit), RemoveFirst(clause.delayed, lit), Top)

\* Prover.clause_delay_lit; body.remove raises ValueError when lit is absent
clause_delay_lit(clause, lit) ==
    Clause(clause.head, RemoveFirst(clause.body, lit), Append(clause.delayed, lit), Top)

-----------------------------------------------------------------------------
(* The calls on the call stack.  Each record is one pending call or the    *)
(* rest of one loop of the source.                                         *)

\* slg_subgoal(literal, mins) with the clauses of kb.clauses still to visit
SubgoalCall(literal, mi, todo) ==
    [op |-> "slg_subgoal", literal |-> literal, mi |-> mi, todo |-> todo]

\* slg_newclause(literal, clause, mins); none: the clause is None
NewclauseCall(literal, none, clause, mi) ==
    [op |-> "slg_newclause", literal |-> literal, none |-> none, clause |-> clause, mi |-> mi]

\* the loop of slg_answer over the live list subgoal.poss, at index i
WaitersLoop(tag, clause, mi, i, factor) ==
    [op |-> "waiters", tag |-> tag, clause |-> clause, mi |-> mi, i |-> i, factor |-> factor]

\* a loop calling slg_newclause for every (literal, clause) of a todo list
TodoLoop(items, mi) == [op |-> "todo", items |-> items, mi |-> mi]

UpdateSolutionCall(literal, selected, sign, mi, bmi) ==
    [op |-> "update_solution", literal |-> literal, selected |-> selected, sign |-> sign,
     mi |-> mi, bmi |-> bmi]

CompleteCall(literal, mi) == [op |-> "slg_complete", literal |-> literal, mi |-> mi]

\* the last loop of slg_complete: slg_complete for each of the frames' literals
CompleteLoop(lits, mi) == [op |-> "complete_frames", lits |-> lits, mi |-> mi]

\* Prover.update_lookup
update_lookup(m, literal, selected, sign, mi) ==
    LET ia == FrameIndex(m.stack, Literal_tag(literal))
        ib == FrameIndex(m.stack, Literal_tag(selected))
    IN IF Literal_tag(literal) \notin DOMAIN m.subgoals
          \/ Literal_tag(selected) \notin DOMAIN m.subgoals
       THEN Raise(m, "KeyError")
       ELSE IF ia = 0 \/ ib = 0 THEN Raise(m, "AssertionError")
       ELSE LET fa == m.stack[ia]
                fb == m.stack[ib]
            IN IF sign
               THEN LET fa1 == [fa EXCEPT !.poslink = Min2(fa.poslink, fb.poslink),
                                          !.neglink = Min2(fa.neglink, fb.neglink)]
                        fb1 == IF ia = ib THEN fa1 ELSE fb
                    IN [m EXCEPT !.stack[ia] = fa1,
                                 !.mins[mi] = Mins(Min2(@.posmin, fa1.poslink),
                                                   Min2(@.negmin, fb1.neglink))]
               ELSE LET fa1 == [fa EXCEPT !.neglink = Min3(fa.neglink, fb.poslink, fb.neglink)]
                        fb1 == IF ia = ib THEN fa1 ELSE fb
                    IN [m EXCEPT !.stack[ia] = fa1,
                                 !.mins[mi] = Mins(@.posmin,
                                                   Min3(@.negmin, fb1.poslink, fb1.neglink))]

\* Prover.update_solution
update_solution(m, literal, selected, sign, mi, bmi) ==
    LET ia == FrameIndex(m.stack, Literal_tag(literal))
    IN IF Literal_tag(literal) \notin DOMAIN m.subgoals THEN Raise(m, "KeyError")
       ELSE IF ia = 0 THEN Raise(m, "AssertionError")
       ELSE IF Literal_tag(selected) \notin DOMAIN m.subgoals THEN Raise(m, "KeyError")
       ELSE IF ~m.subgoals[Literal_tag(selected)].comp
       THEN update_lookup(m, literal, selected, sign, mi)
       ELSE LET fa == m.stack[ia]
                bmins == m.mins[bmi]
            IN [m EXCEPT !.stack[ia] = [fa EXCEPT !.poslink = Min2(fa.poslink, bmins.posmin),
                                                 !.neglink = Min2(fa.neglink, bmins.negmin)],
                         !.mins[mi] = Mins(Min2(@.posmin, bmins.posmin),
                                           Min2(@.negmin, bmins.negmin))]

\* the registry after answer_subsumed_by compared the clause with the answers
RECURSIVE RegisterAnswers(_, _, _, _)
RegisterAnswers(reg, answers, clause, d) ==
    IF answers = <<>> THEN reg
    ELSE RegisterAnswers(RegisterPair(reg, Head(answers).sentence, clause.sentence, d),
                         Tail(answers), clause, d)

\* slg_answer once the clause is known not to be subsumed
AnswerAdded(m, tag, clause, mi) ==
    IF clause.delayed = <<>>
    THEN Push([m EXCEPT !.subgoals[tag].anss = @ \cup {clause}, !.subgoals[tag].negs = <<>>],
              <<WaitersLoop(tag, clause, mi, 1, FALSE)>>)
    ELSE IF other_answer_with_same_head(clause, m.subgoals[tag].anss \cup {clause})
    THEN [m EXCEPT !.subgoals[tag].anss = @ \cup {clause}]
    ELSE Push([m EXCEPT !.subgoals[tag].anss = @ \cup {clause}],
              <<WaitersLoop(tag, clause, mi, 1, TRUE)>>)

\* slg_answer with the registry reg2 that answer_subsumed_by leaves
AnswerChecked(m, tag, clause, mi, d, kind, reg2) ==
    IF answer_subsumed_by(kind, d, reg2, clause, m.subgoals[tag].anss)
    THEN [m EXCEPT !.reg = reg2]
    ELSE AnswerAdded([m EXCEPT !.reg = reg2], tag, clause, mi)

\* Prover.slg_answer up to its loop over the waiters
slg_answer(m, literal, clause, mi, d, kind) ==
    LET tag == Literal_tag(literal)
        same == {cl \in m.subgoals[tag].anss : cl.head = clause.head}
    IN IF tag \notin DOMAIN m.subgoals THEN Raise(m, "KeyError")
       ELSE IF kind = "exact" /\ \E cl \in same : ~EquivalentAsserts(cl.sentence, clause.sentence)
       THEN Raise(m, "AssertionError")
       ELSE AnswerChecked(m, tag, clause, mi, d, kind,
                          IF kind = "exact"
                          THEN RegisterAnswers(m.reg, SeqOfSet(same), clause, d)
                          ELSE m.reg)

\* the machine after a call that gave the result r: the counters move on
\* and, unless r is None, slg_newclause is called before the loop goes on
Resolved(m, r, literal, mi, next) ==
    IF r.none THEN Push([m EXCEPT !.fresh = r.n, !.reg = r.reg], <<next>>)
    ELSE Push([m EXCEPT !.fresh = r.n, !.reg = r.reg],
              <<NewclauseCall(literal, FALSE, r.clause, mi), next>>)

\* the same for a waiter and an answer: the event e tells that the waiter was fed
Fed(m, r, literal, mi, next, e) ==
    Resolved(IF r.none THEN m ELSE Note(m, e), r, literal, mi, next)

\* one turn of the loop of slg_answer over subgoal.poss
WaitersStep(m, f, d, kind) ==
    LET poss == m.subgoals[f.tag].poss
    IN IF f.i > Len(poss) THEN m
       ELSE Fed(m,
                IF f.factor
                THEN slg_factor(kind, m.reg, poss[f.i].clause, poss[f.i].selected, f.clause,
                                m.fresh)
                ELSE slg_resolve(kind, d, m.reg, poss[f.i].clause, poss[f.i].selected,
                                 f.clause, m.fresh),
                poss[f.i].literal, f.mi, [f EXCEPT !.i = @ + 1],
                FedEvent(f.factor, poss[f.i].literal, poss[f.i].clause, f.clause.head))

\* what slg_positive makes of one answer c of a known subgoal
TodoItem(kind, d, clause, selected, c, collection, n, reg) ==
    IF fact_in_collection(kind, c.head, collection)
    THEN slg_resolve(kind, d, reg, clause, selected,
                     Clause(c.head, <<>>, <<>>, IF kind = "exact" THEN c.sentence ELSE Top), n)
    ELSE slg_factor(kind, reg, clause, selected, c, n)

\* the todo list slg_positive builds from the answers of a known subgoal,
\* visited in the order `answers`; collection is the whole answer set.  The
\* exact prover leaves out a resolvent that is None and asserts that a
\* factor is not None.
RECURSIVE PositiveTodo(_, _, _, _, _, _, _, _, _, _)
RECURSIVE TodoAppend(_, _, _, _, _, _, _, _, _)
PositiveTodo(kind, d, literal, clause, selected, answers, collection, n, reg, acc) ==
    IF answers = <<>> THEN [items |-> acc, n |-> n, reg |-> reg, err |-> ""]
    ELSE TodoAppend(kind, d, literal, clause, selected, answers, collection, acc,
                    TodoItem(kind, d, clause, selected, Head(answers), collection, n, reg))

TodoAppend(kind, d, literal, clause, selected, answers, collection, acc, r) ==
    IF kind = "exact" /\ r.none /\ ~fact_in_collection(kind, Head(answers).head, collection)
    THEN [items |-> acc, n |-> r.n, reg |-> r.reg, err |-> "AssertionError"]
    ELSE PositiveTodo(kind, d, literal, clause, selected, Tail(answers), collection, r.n, r.reg,
                      IF kind = "exact" /\ r.none THEN acc
                      ELSE Append(acc, [literal |-> literal, none |-> r.none,
                                        clause |-> r.clause, answer |-> Head(answers).head]))

\* the answers of the todo list that gave a clause for slg_newclause
TodoFed(kind, literal, clause, items, collection) ==
    {FedEvent(~fact_in_collection(kind, items[i].answer, collection), literal, clause,
              items[i].answer) : i \in {j \in DOMAIN items : ~items[j].none}}

\* slg_positive on a known subgoal, with its todo list t built
PositiveResumed(m, mi, t, kind, literal, clause, collection) ==
    IF t.err # "" THEN Raise([m EXCEPT !.fresh = t.n, !.reg = t.reg], t.err)
    ELSE Push([m EXCEPT !.fresh = t.n, !.reg = t.reg,
                        !.events = @ \cup TodoFed(kind, literal, clause, t.items, collection)],
              <<TodoLoop(t.items, mi)>>)

\* slg_positive on a known subgoal, after the waiter was added
PositiveKnown(m, literal, clause, selected, mi, d, kind, ord, collection) ==
    IF m.err # "" THEN m
    ELSE PositiveResumed(m, mi,
                         PositiveTodo(kind, d, literal, clause, selected, ord, collection,
                                      m.fresh, m.reg, <<>>),
                         kind, literal, clause, collection)

\* Prover.slg_positive and ExactProver.slg_positive; ord is the order in which
\* the set subgoal.anss is iterated
slg_positive(m, literal, clause, selected, mi, d, kind, ord) ==
    LET tag == Literal_tag(selected)
    IN IF tag \notin DOMAIN m.subgoals
       THEN Push([m EXCEPT
                    !.subgoals = Put(@, tag, Subgoal(selected,
                                                     <<Waiter(literal, clause, selected)>>,
                                                     <<>>)),
                    !.stack = Append(@, Frame(tag, m.count, m.count, Inf)),
                    !.count = @ + 1,
                    !.mins = Append(@, Mins(m.count, Inf))],
                 <<SubgoalCall(selected, Len(m.mins) + 1, clauses(d, selected)),
                   UpdateSolutionCall(literal, selected, TRUE, mi, Len(m.mins) + 1)>>)
       ELSE PositiveKnown(IF ~m.subgoals[tag].comp
                          THEN update_lookup([m EXCEPT !.subgoals[tag].poss =
                                                         Append(@, Waiter(literal, clause,
                                                                          selected))],
                                             literal, selected, TRUE, mi)
                          ELSE m,
                          literal, clause, selected, mi, d, kind, ord, m.subgoals[tag].anss)

\* Prover.slg_negative; selected is the inverted (positive) literal.  The new
\* subgoal is run with the caller's mins, bmins reaches update_solution only.
slg_negative(m, literal, clause, selected, mi, d) ==
    LET tag == Literal_tag(selected)
    IN IF tag \notin DOMAIN m.subgoals
       THEN LET dfn == m.count
                bmi == Len(m.mins) + 1
                m1 == [m EXCEPT
                         !.subgoals = Put(@, tag, Subgoal(selected, <<>>,
                                                          <<Waiter(literal, clause, selected)>>)),
                         !.stack = Append(@, Frame(tag, dfn, dfn, Inf)),
                         !.count = @ + 1,
                         !.mins = Append(@, Mins(dfn, Inf)),
                         !.events = @ \cup {WaitsEvent(literal, clause, selected)}]
            IN Push(m1, <<SubgoalCall(selected, mi, clauses(d, selected)),
                          UpdateSolutionCall(literal, selected, FALSE, mi, bmi)>>)
       ELSE LET sg == m.subgoals[tag]
                negselected == invert(selected)
            IN IF ~sg.comp
               THEN IF Fact(selected) \notin sg.anss
                    THEN update_lookup([m EXCEPT
                                          !.subgoals[tag].negs =
                                              Append(@, Waiter(literal, clause, selected)),
                                          !.events = @ \cup {WaitsEvent(literal, clause,
                                                                        selected)}],
                                       literal, selected, FALSE, mi)
                    ELSE m
               ELSE IF sg.anss = {}
               THEN Push(m, <<NewclauseCall(literal, FALSE,
                                            clause_remove_lit(clause, negselected), mi)>>)
               ELSE IF Fact(selected) \notin sg.anss
               THEN IF negselected \notin Range(clause.body) THEN Raise(m, "ValueError")
                    ELSE Push(m, <<NewclauseCall(literal, FALSE,
                                                 clause_delay_lit(clause, negselected), mi)>>)
               ELSE m

\* the waiters the first branch of slg_complete finds in its local `negs`:
\* `negs` is the list fb.subgoal.negs itself, which is cleared before the loop
CompletedNegs(sg) == SubSeq(sg.negs, 1, 0)

\* the clauses the second branch of slg_complete delays, frames top first
DelayedTodo(m, frames) ==
    Flatten([i \in DOMAIN frames |->
               LET sg == m.subgoals[frames[i].subgoal]
               IN [j \in DOMAIN sg.negs |->
                     [literal |-> sg.negs[j].literal, none |-> FALSE,
                      clause |-> clause_delay_lit(sg.negs[j].clause, invert(sg.literal))]]])

\* the negative waiters of the subgoals whose frames slg_complete pops
CompletedWaiters(m, tags) ==
    UNION {{CompletedEvent(m.subgoals[t], m.subgoals[t].negs[j]) :
              j \in DOMAIN m.subgoals[t].negs} : t \in tags}

\* Prover.slg_complete up to its loops over todo and frames
slg_complete(m, literal, mi) ==
    LET tag == Literal_tag(literal)
        ia == FrameIndex(m.stack, tag)
    IN IF tag \notin DOMAIN m.subgoals THEN Raise(m, "KeyError")
       ELSE IF ia = 0 THEN Raise(m, "AssertionError")
       ELSE
       LET fa == [m.stack[ia] EXCEPT !.poslink = Min2(@, m.mins[mi].posmin),
                                     !.neglink = Min2(@, m.mins[mi].negmin)]
           m1 == [m EXCEPT !.stack[ia] = fa]
           top == Len(m.stack)
           \* the frames from fa to the top of the stack, top first
           frames == [i \in 1..(top - ia + 1) |-> m1.stack[top + 1 - i]]
           tags == {frames[i].subgoal : i \in DOMAIN frames}
       IN IF fa.poslink = fa.dfn /\ fa.neglink = Inf
          THEN LET \* the loop over `negs`: a waiter of a subgoal without answers
                   \* is resumed with the literal removed; line 612 names the
                   \* undefined `selected` and `subgoal`
                   waiting == Flatten([i \in DOMAIN frames |->
                                LET sg == m1.subgoals[frames[i].subgoal]
                                    negs == CompletedNegs(sg)
                                IN [j \in DOMAIN negs |->
                                      [literal |-> negs[j].literal, none |-> sg.anss # {},
                                       clause |-> clause_remove_lit(negs[j].clause,
                                                                    invert(sg.literal))]]])
                   m2 == [m1 EXCEPT
                            !.stack = SubSeq(@, 1, ia - 1),
                            !.subgoals = [t \in DOMAIN @ |->
                                            IF t \in tags
                                            THEN [@[t] EXCEPT !.comp = TRUE, !.poss = <<>>,
                                                              !.negs = <<>>]
                                            ELSE @[t]],
                            !.mins[mi] = Mins(Inf, Inf),
                            !.events = @ \cup CompletedWaiters(m1, tags)]
               IN IF \E i \in DOMAIN waiting : waiting[i].none THEN Raise(m2, "NameError")
                  ELSE IF waiting = <<>> THEN m2
                  ELSE Push(m2, <<TodoLoop(waiting, mi)>>)
          ELSE IF fa.poslink = fa.dfn /\ fa.neglink >= fa.dfn
          THEN LET todo == DelayedTodo(m1, frames)
                   m2 == [m1 EXCEPT
                            !.stack = [i \in DOMAIN @ |->
                                         IF i >= ia THEN [@[i] EXCEPT !.neglink = Inf] ELSE @[i]],
                            !.subgoals = [t \in DOMAIN @ |->
                                            IF t \in tags THEN [@[t] EXCEPT !.negs = <<>>]
                                            ELSE @[t]],
                            !.mins[mi] = Mins(m1.stack[top].dfn, Inf)]
               IN Push(m2, <<TodoLoop(todo, mi),
                             CompleteLoop([i \in DOMAIN frames |->
                                             m1.subgoals[frames[i].subgoal].literal], mi)>>)
          ELSE m1

\* slg_newclause has selected sel in the clause
SelectEvent(literal, clause, sel) ==
    [event |-> "select", literal |-> literal, clause |-> clause, selected |-> sel]

\* slg_negative is called on the literal
NegativeEvent(literal, clause, selected) ==
    [event |-> "negative", literal |-> literal, clause |-> clause,
     selected |-> <<selected>>]

\* Prover.slg_newclause and ExactProver.slg_newclause after select
Selected(m, literal, clause, sel, mi, d, kind, ord) ==
    IF sel = <<>> THEN slg_answer(m, literal, clause, mi, d, kind)
    ELSE IF sel[1].polarity
    THEN slg_positive(m, literal, clause, sel[1], mi, d, kind, ord)
    ELSE IF is_grounded(sel[1])
    THEN IF kind = "exact" THEN Raise(m, "JudgedError: negative literal")
         ELSE slg_negative(Note(m, NegativeEvent(literal, clause, invert(sel[1]))),
                           literal, clause, invert(sel[1]), mi, d)
    ELSE Raise(m, "JudgedError: non-grounded negative literal")

\* Prover.slg_newclause and ExactProver.slg_newclause
slg_newclause(m, literal, none, clause, mi, d, kind, ord) ==
    IF none THEN Raise(m, "AttributeError")
    ELSE Selected(Note(m, SelectEvent(literal, clause, select(clause))),
                  literal, clause, select(clause), mi, d, kind, ord)

\* the body of the loop of Prover.slg_subgoal once self.allows has returned
\* a, or has raised
Allowed(m, a, f, d, kind) ==
    IF a.err # "" THEN Raise(m, a.err)
    ELSE IF a.val # "True" THEN Push(m, <<[f EXCEPT !.todo = Tail(@)]>>)
    ELSE Resolved(m,
                  slg_resolve(kind, d, m.reg, Clause(f.literal, <<f.literal>>, <<>>, Top),
                              f.literal, Head(f.todo), m.fresh),
                  f.literal, f.mi, [f EXCEPT !.todo = Tail(@)])

\* slg_subgoal that returns after its loop without calling slg_complete
slg_subgoal_uncompleted(m, f, d, kind) ==
    IF f.todo = <<>> THEN m
    ELSE Allowed([m EXCEPT !.choices = allows(m, Head(f.todo).sentence).st.choices,
                           !.checks = allows(m, Head(f.todo).sentence).st.checks],
                 allows(m, Head(f.todo).sentence), f, d, kind)

\* one turn of the loop of Prover.slg_subgoal over kb.clauses(literal)
slg_subgoal(m, f, d, kind) ==
    IF f.todo = <<>> THEN Push(m, <<CompleteCall(f.literal, f.mi)>>)
    ELSE Allowed([m EXCEPT !.choices = allows(m, Head(f.todo).sentence).st.choices,
                           !.checks = allows(m, Head(f.todo).sentence).st.checks],
                 allows(m, Head(f.todo).sentence), f, d, kind)

\* the orders in which the innermost call may iterate a set of answers
Orders(m) ==
    LET f == Head(m.ctl)
        sel == select(f.clause)
    IN IF f.op = "slg_newclause" /\ ~f.none /\ sel # <<>> /\ sel[1].polarity
          /\ Literal_tag(sel[1]) \in DOMAIN m.subgoals
       THEN Perms(m.subgoals[Literal_tag(sel[1])].anss)
       ELSE {<<>>}

\* the machine runs its innermost call
Run(m, d, kind, ord) ==
    LET f == Head(m.ctl)
        rest == [m EXCEPT !.ctl = Tail(@)]
    IN CASE f.op = "slg_subgoal" -> slg_subgoal(rest, f, d, kind)
         [] f.op = "slg_newclause" ->
                slg_newclause(rest, f.literal, f.none, f.clause, f.mi, d, kind, ord)
         [] f.op = "waiters" -> WaitersStep(rest, f, d, kind)
         [] f.op = "todo" ->
                IF f.items = <<>> THEN rest
                ELSE Push(rest, <<NewclauseCall(Head(f.items).literal, Head(f.items).none,
                                                Head(f.items).clause, f.mi),
                                  [f EXCEPT !.items = Tail(@)]>>)
         [] f.op = "update_solution" ->
                update_solution(rest, f.literal, f.selected, f.sign, f.mi, f.bmi)
         [] f.op = "slg_complete" -> slg_complete(rest, f.literal, f.mi)
         [] f.op = "complete_frames" ->
                IF f.lits = <<>> THEN rest
                ELSE Push(rest, <<CompleteCall(Head(f.lits), f.mi),
                                  [f EXCEPT !.lits = Tail(@)]>>)

-----------------------------------------------------------------------------
(* State.  db, kbOp and kbPrev are declared with the knowledge base above. *)
(*   prover         the two provers built over the knowledge base, by kind:*)
(*                  each holds subgoals, stack, count and checker          *)
(*   running        <<>> when no ask runs, else <<[kind, query]>>          *)
(*   ctl, mins, err the call stack of the running ask, its Mins objects    *)
(*                  and the exception that ended it                        *)
(*   fresh          make_fresh_var.counter                                 *)
(*   variables_rev  the BDD variable registry of datalog/bdd.py            *)
(*   log            history: one entry per finished ask                    *)
(*   choices        the dict `choices` of the context (empty when the       *)
(*                  checker is not a method of the context)                 *)
(*   checks         history: the calls of MontecarloContext.check made by   *)
(*                  the running ask                                         *)
(*   events         history: what the running ask has done so far (the      *)
(*                  literals selected, the waiters fed), as a set           *)
(*   uL, uR         the two literals given to Literal.unify / Literal.tag  *)
(*   uRes, uTag     <<>> or the one result of unify / the pair of tags     *)
(*   sArgs          the sentences given to worlds.equivalent and falsehood  *)
(*   sRes           the results of the calls made so far, by argument index *)
(*   ctx            the context: its class, number, approximate, prob and   *)
(*                  extensions                                              *)
(*   xctl           the call stack above the prover: Context.ask,           *)
(*                  MontecarloContext._ask and the actions being performed  *)
(*   xres           <<>> or the value returned, or the exception raised, by *)
(*                  the call that ended last                                *)
(*   hooks          history: the before_ask and after_ask calls made        *)
(*   trace          history: the children performed by actions              *)

VARIABLES prover, running, ctl, mins, err, fresh, variables_rev, log, choices, checks

VARIABLES events

VARIABLES uL, uR, uRes, uTag

proverVars ==
    <<prover, running, ctl, mins, err, fresh, variables_rev, log, choices, checks, events>>

VARIABLES sArgs, sRes

VARIABLES ctx, xctl, xres, hooks, trace

uVars == <<uL, uR, uRes, uTag>>

sVars == <<sArgs, sRes>>

xVars == <<ctx, xctl, xres, hooks, trace>>

ctxVars == <<sArgs, sRes, ctx, xctl, xres, hooks, trace>>

vars == <<db, kbOp, kbPrev, prim, registered, prover, running, ctl, mins, err, fresh, variables_rev, log,
          choices, checks, events, uL, uR, uRes, uTag, sArgs, sRes, ctx, xctl, xres, hooks, trace>>

UnsetChecker == [kind |-> "unset"]

\* Prover.__init__
NewProver == [subgoals |-> [t \in {} |-> 0], stack |-> <<>>, count |-> 1,
              checker |-> UnsetChecker]

ProverInit ==
    /\ prover = [k \in {"base", "exact"} |-> NewProver]
    /\ running = <<>>
    /\ ctl = <<>>
    /\ mins = <<>>
    /\ err = ""
    /\ fresh = 0
    /\ variables_rev = <<>>
    /\ log = <<>>
    /\ choices = <<>>
    /\ checks = <<>>
    /\ events = {}

KBInit ==
    /\ db = EmptyDb
    /\ kbOp = [op |-> "none", clause |-> Fact(Lit("p", <<>>)), raised |-> FALSE]
    /\ kbPrev = EmptyDb
    /\ prim = BuiltinPrim
    /\ registered = <<<<<<"=", 2>>, EqualsGenerator>>>>

UIdle ==
    /\ uL = Lit("p", <<>>)
    /\ uR = Lit("p", <<>>)
    /\ uRes = <<>>
    /\ uTag = <<>>

SIdle ==
    /\ sArgs = <<>>
    /\ sRes = <<>>

\* a context: Context.__init__ and the constructor of its class
NewContext(kind, number, approximate) ==
    [kind |-> kind, number |-> number, approximate |-> approximate,
     prob |-> [k \in {} |-> <<>>], extensions |-> <<>>]

XIdle ==
    /\ ctx = NewContext("none", 0, <<>>)
    /\ xctl = <<>>
    /\ xres = <<>>
    /\ hooks = <<>>
    /\ trace = <<>>

CtxIdle == SIdle /\ XIdle

-----------------------------------------------------------------------------
(* Literal.unify and Literal.tag applied to pairs of literals.             *)

UTerms == {K.a, K.b, V.X, V.Y, V.Z}

UTerms3 == {K.a, V.X, V.Y}

ULiterals ==
    {[pred |-> <<n, 2>>, terms |-> t, polarity |-> b] :
        n \in {"p", "q"}, t \in [1..2 -> UTerms], b \in BOOLEAN}
    \cup {Lit("r", t) : t \in [1..3 -> UTerms3]}

UInit ==
    /\ uL \in ULiterals
    /\ uR \in ULiterals
    /\ uRes = <<>>
    /\ uTag = <<>>

ApplyUnify ==
    /\ uRes = <<>>
    /\ uRes' = <<Literal_unify(uL, uR)>>
    /\ UNCHANGED <<uL, uR, uTag>>
    /\ UNCHANGED kbVars
    /\ UNCHANGED proverVars
    /\ UNCHANGED ctxVars

ApplyTag ==
    /\ uTag = <<>>
    /\ uTag' = <<Literal_tag(uL), Literal_tag(uR)>>
    /\ UNCHANGED <<uL, uR, uRes>>
    /\ UNCHANGED kbVars
    /\ UNCHANGED proverVars
    /\ UNCHANGED ctxVars

InitUnify == UInit /\ KBInit /\ ProverInit /\ CtxIdle

SpecUnify ==
    InitUnify /\ [][ApplyUnify \/ ApplyTag]_vars

-----------------------------------------------------------------------------
(* The knowledge base under assert_clause and retract_clause.              *)

\* the clauses handed to assert_clause and retract_clause
KBClauses ==
    { Fact(Lit("p", <<K.a>>)),
      Fact(Lit("r", <<K.a>>)),
      Rule(Lit("q", <<V.X>>), <<Lit("p", <<V.X>>)>>),
      Rule(Lit("q", <<V.X>>), <<Lit("p", <<V.X>>), NegLit("r", <<V.X>>)>>),
      Clause(Lit("f", <<K.a>>), <<>>, <<>>, Label(LC("x"), LC(1))),
      \* a head variable that no body literal holds
      Fact(Lit("q", <<V.X>>)),
      Rule(Lit("p", <<V.X>>), <<Lit("r", <<V.Y>>)>>),
      \* a variable in a negated literal only
      Rule(Lit("q", <<K.a>>), <<NegLit("r", <<V.X>>)>>),
      \* a variable in the labels of the sentence only
      Clause(Lit("f", <<K.a>>), <<>>, <<>>, Label(LF("p", <<V.X>>), LC(2))),
      Clause(Lit("f", <<V.X>>), <<Lit("p", <<V.X>>)>>, <<>>, Label(LF("q", <<V.Y>>), LC(1))) }

AssertClause(c) ==
    /\ running = <<>>
    /\ LET r == assert_clause(db, c)
       IN /\ db' = r.db
          /\ kbOp' = [op |-> "assert", clause |-> c, raised |-> r.raised]
    /\ kbPrev' = db
    /\ UNCHANGED <<prim, registered>>
    /\ UNCHANGED proverVars
    /\ UNCHANGED uVars
    /\ UNCHANGED ctxVars

RetractClause(c) ==
    /\ running = <<>>
    /\ db' = retract_clause(db, c)
    /\ kbOp' = [op |-> "retract", clause |-> c, raised |-> FALSE]
    /\ kbPrev' = db
    /\ UNCHANGED <<prim, registered>>
    /\ UNCHANGED proverVars
    /\ UNCHANGED uVars
    /\ UNCHANGED ctxVars

NextKB ==
    \/ \E c \in KBClauses : AssertClause(c)
    \/ \E c \in KBClauses : RetractClause(c)

InitKB == KBInit /\ ProverInit /\ UIdle /\ CtxIdle

SpecKB ==
    InitKB /\ [][NextKB]_vars

-----------------------------------------------------------------------------
(* Asking.  One ask runs at a time (a prover is not thread-safe, and the   *)
(* knowledge base is edited only between asks).                            *)

\* the asks of one behaviour: the fresh-variable counter grows with each
MaxAsks == 2

\* Probabilities are fractions <<numerator, denominator>> with a positive
\* denominator; the distributions of the model take values that the floats
\* of the program hold exactly.
Frac(n, d) == <<n, d>>

FracAdd(a, b) == <<a[1] * b[2] + b[1] * a[2], a[2] * b[2]>>

FracSub(a, b) == <<a[1] * b[2] - b[1] * a[2], a[2] * b[2]>>

FracMul(a, b) == <<a[1] * b[1], a[2] * b[2]>>

FracLess(a, b) == a[1] * b[2] < b[1] * a[2]

FracEq(a, b) == a[1] * b[2] = b[1] * a[2]

FracLeq(a, b) == FracLess(a, b) \/ FracEq(a, b)

\* the sum of the first i weights of a distribution; a distribution is the
\* sequence of the items <<part, weight>> of the dict prob[partitioning]
RECURSIVE Cumulative(_, _)
Cumulative(items, i) ==
    IF i = 0 THEN Frac(0, 1) ELSE FracAdd(Cumulative(items, i - 1), items[i][2])

\* what MontecarloContext.pick(key) can return, <<part>>, or raise, <<>>:
\* the first part whose cumulative weight reaches r, for the values r of
\* random.random(), which are at least 0 and below 1; an exception when no
\* part does or when no distribution is set
pick(prob, key) ==
    IF key \notin DOMAIN prob THEN {<<>>}
    ELSE {<<prob[key][i][1]>> :
             i \in {j \in DOMAIN prob[key] :
                      \/ j = 1
                      \/ /\ FracLess(Cumulative(prob[key], j - 1), Cumulative(prob[key], j))
                         /\ FracLess(Cumulative(prob[key], j - 1), Frac(1, 1))}}
         \cup (IF FracLess(Cumulative(prob[key], Len(prob[key])), Frac(1, 1))
               THEN {<<>>} ELSE {})

\* the partitionings of the labels of the stored clauses
LabelKeys(d) == UNION {{l[1] : l \in labels(c.sentence)} : c \in StoredClauses(d)}

\* the outcomes of the calls of pick that one step of the prover may make
PickOracles(checker, prob, d) ==
    IF checker.kind # "montecarlo" THEN {<<>>}
    ELSE {o \in [LabelKeys(d) -> UNION {pick(prob, key) : key \in LabelKeys(d)}] :
             \A key \in LabelKeys(d) : o[key] \in pick(prob, key)}

\* the machine of the prover of kind k
Machine(k) ==
    [subgoals |-> prover[k].subgoals, stack |-> prover[k].stack, count |-> prover[k].count,
     checker |-> prover[k].checker, mins |-> mins, ctl |-> ctl, fresh |-> fresh,
     reg |-> variables_rev, err |-> err, choices |-> choices, checks |-> checks,
     oracle |-> <<>>, events |-> events]

\* ExactProver.ask that keeps the tables of the ask before
ask_begin_kept(query, checker) ==
    [subgoals |-> Put(prover["exact"].subgoals, Literal_tag(query),
                      Subgoal(query, <<>>, <<>>)),
     stack |-> prover["exact"].stack \o <<Frame(Literal_tag(query), 1, 1, Inf)>>,
     count |-> 2,
     checker |-> checker]

\* ask that leaves count at the dfn of the root frame
ask_begin_uncounted(query, checker) ==
    [subgoals |-> Put([t \in {} |-> 0], Literal_tag(query), Subgoal(query, <<>>, <<>>)),
     stack |-> <<Frame(Literal_tag(query), 1, 1, Inf)>>,
     count |-> 1,
     checker |-> checker]

\* Prover.ask and ExactProver.ask up to the call of slg_subgoal: the tables
\* are reset and the root subgoal gets the first frame
ask_begin(query, checker) ==
    [subgoals |-> Put([t \in {} |-> 0], Literal_tag(query), Subgoal(query, <<>>, <<>>)),
     stack |-> <<Frame(Literal_tag(query), 1, 1, Inf)>>,
     count |-> 2,
     checker |-> checker]

\* the clauses Prover.ask yields: one fact per head not seen before
RECURSIVE YieldHeads(_, _)
YieldHeads(answers, seen) ==
    IF answers = <<>> THEN <<>>
    ELSE IF Head(answers).head \in seen THEN YieldHeads(Tail(answers), seen)
    ELSE <<Head(answers).head>> \o YieldHeads(Tail(answers), seen \cup {Head(answers).head})

\* the clauses ask yields from the answers of the root subgoal.  The set is
\* iterated in one fixed order here: the log keeps the answers as a bag.
ask_answers(kind, anss) ==
    LET answers == SeqOfSet(anss)
        heads == YieldHeads(answers, {})
        sentences(h) == LET same == SelectSeq(answers, LAMBDA c : c.head = h)
                        IN [i \in DOMAIN same |-> same[i].sentence]
    IN IF kind = "exact"
       THEN [i \in DOMAIN heads |-> Clause(heads[i], <<>>, <<>>, disjunct(sentences(heads[i])))]
       ELSE [i \in DOMAIN heads |-> Fact(heads[i])]

\* the prover of kind k starts on the query
StartAsk(k, query, checker) ==
    /\ prover' = [prover EXCEPT ![k] = ask_begin(query, checker)]
    /\ running' = <<[kind |-> k, query |-> query]>>
    /\ ctl' = <<SubgoalCall(query, 1, clauses(db, query))>>
    /\ mins' = <<Mins(1, Inf)>>
    /\ err' = ""
    /\ checks' = <<>>
    /\ events' = {}
    /\ UNCHANGED <<fresh, variables_rev, log>>

Ask(k, query, checker) ==
    /\ running = <<>>
    /\ Len(log) < MaxAsks
    /\ StartAsk(k, query, checker)
    /\ UNCHANGED choices
    /\ UNCHANGED kbVars
    /\ UNCHANGED uVars
    /\ UNCHANGED ctxVars

\* the state of the prover of kind k and of the running ask becomes that of m
Becomes(k, m) ==
    /\ prover' = [prover EXCEPT ![k] = [subgoals |-> m.subgoals, stack |-> m.stack,
                                        count |-> m.count, checker |-> m.checker]]
    /\ ctl' = m.ctl
    /\ mins' = m.mins
    /\ err' = m.err
    /\ fresh' = m.fresh
    /\ variables_rev' = m.reg
    /\ choices' = m.choices
    /\ checks' = m.checks
    /\ events' = m.events

\* the running ask makes the next step of its innermost call
StepProver ==
    /\ running # <<>>
    /\ ctl # <<>>
    /\ \E ord \in Orders(Machine(running[1].kind)) :
          \E o \in PickOracles(prover[running[1].kind].checker, ctx.prob, db) :
              Becomes(running[1].kind,
                      Run([Machine(running[1].kind) EXCEPT !.oracle = o], db,
                          running[1].kind, ord))
    /\ UNCHANGED <<running, log>>
    /\ UNCHANGED kbVars
    /\ UNCHANGED uVars
    /\ UNCHANGED ctxVars

\* slg_subgoal has returned, or an exception has unwound it: ask yields its
\* answers, or raises; the tables stay as they are until the next ask
AskDone ==
    /\ running # <<>>
    /\ ctl = <<>>
    /\ LET k == running[1].kind
           query == running[1].query
           root == prover[k].subgoals[Literal_tag(query)].anss
       IN log' = Append(log, [kind |-> k, db |-> db, query |-> query,
                              checker |-> prover[k].checker, choices |-> choices,
                              checks |-> checks, events |-> events,
                              err |-> err, root |-> root,
                              answers |-> IF err # "" THEN <<>> ELSE ask_answers(k, root)])
    /\ running' = <<>>
    /\ mins' = <<>>
    /\ err' = ""
    /\ UNCHANGED <<prover, ctl, fresh, variables_rev, choices, checks, events>>
    /\ UNCHANGED kbVars
    /\ UNCHANGED uVars
    /\ UNCHANGED ctxVars

\* a knowledge base holding the given clauses, asserted in this order
RECURSIVE Loaded(_, _)
Loaded(d, cs) == IF cs = <<>> THEN d ELSE Loaded(assert_clause(d, Head(cs)).db, Tail(cs))

LoadedInit(cs) ==
    /\ db = Loaded(EmptyDb, cs)
    /\ kbOp = [op |-> "none", clause |-> Fact(Lit("p", <<>>)), raised |-> FALSE]
    /\ kbPrev = Loaded(EmptyDb, cs)
    /\ prim = BuiltinPrim
    /\ registered = <<<<<<"=", 2>>, EqualsGenerator>>>>

-----------------------------------------------------------------------------
(* The base prover on a program without negation: the ancestor program and *)
(* a rule with a repeated head variable.                                   *)

PositiveProgram ==
    << Fact(Lit("parent", <<K.a, K.b>>)),
       Fact(Lit("parent", <<K.b, K.c>>)),
       Rule(Lit("ancestor", <<V.X, V.Y>>), <<Lit("parent", <<V.X, V.Y>>)>>),
       Rule(Lit("ancestor", <<V.X, V.Y>>),
            <<Lit("parent", <<V.X, V.Z>>), Lit("ancestor", <<V.Z, V.Y>>)>>),
       Fact(Lit("r", <<K.a>>)),
       Rule(Lit("p", <<V.Y, V.Y>>), <<Lit("r", <<V.Y>>)>>) >>

PositiveQueries ==
    { Lit("ancestor", <<V.X, V.Y>>), Lit("p", <<V.X, V.Y>>), Lit("p", <<V.X, K.a>>) }

PositiveEdits == { Fact(Lit("r", <<K.b>>)) }

NextPositive ==
    \/ \E q \in PositiveQueries : Ask("base", q, TrueChecker)
    \/ StepProver
    \/ AskDone
    \/ \E c \in PositiveEdits : AssertClause(c)
    \/ \E c \in PositiveEdits : RetractClause(c)

InitPositive == LoadedInit(PositiveProgram) /\ ProverInit /\ UIdle /\ CtxIdle

SpecPositive ==
    InitPositive /\ [][NextPositive]_vars

-----------------------------------------------------------------------------
(* The base prover on a program with stratified negation.                  *)

NegationProgram ==
    << Fact(Lit("p", <<K.a>>)),
       Fact(Lit("p", <<K.b>>)),
       Fact(Lit("r", <<K.a>>)),
       Rule(Lit("q", <<V.X>>), <<Lit("p", <<V.X>>), NegLit("r", <<V.X>>)>>),
       Rule(Lit("t", <<K.a>>), <<NegLit("u", <<K.a>>)>>),
       Rule(Lit("u", <<K.a>>), <<NegLit("s", <<K.b>>)>>) >>

NegationQueries == { Lit("q", <<V.X>>), Lit("t", <<K.a>>), Lit("u", <<K.a>>) }

NegationEdits == { Fact(Lit("r", <<K.b>>)) }

NextNegation ==
    \/ \E q \in NegationQueries : Ask("base", q, TrueChecker)
    \/ StepProver
    \/ AskDone
    \/ \E c \in NegationEdits : AssertClause(c)
    \/ \E c \in NegationEdits : RetractClause(c)

InitNegation == LoadedInit(NegationProgram) /\ ProverInit /\ UIdle /\ CtxIdle

SpecNegation ==
    InitNegation /\ [][NextNegation]_vars

-----------------------------------------------------------------------------
(* The exact prover on a program whose clauses hold in some worlds only;   *)
(* x has the parts 1 and 2, y the part 1.                                  *)

ExactProgram ==
    << Clause(Lit("f", <<>>), <<>>, <<>>, Label(LC("x"), LC(1))),
       Clause(Lit("f", <<>>), <<>>, <<>>, Label(LC("x"), LC(2))),
       Clause(Lit("g", <<>>), <<>>, <<>>,
              Conjunction(<<Label(LC("x"), LC(1)), Label(LC("x"), LC(2))>>)),
       Clause(Lit("e", <<K.a>>), <<>>, <<>>, Label(LC("x"), LC(1))),
       Clause(Lit("u", <<K.a>>), <<>>, <<>>, Label(LC("x"), LC(2))),
       Clause(Lit("u", <<K.b>>), <<>>, <<>>, Label(LC("y"), LC(1))),
       Rule(Lit("both", <<V.X>>), <<Lit("e", <<V.X>>), Lit("u", <<V.X>>)>>),
       Clause(Lit("h", <<V.X>>), <<Lit("e", <<V.X>>)>>, <<>>, Label(LC("y"), LC(1))),
       Clause(Lit("n", <<K.b>>), <<>>, <<>>, Negation(Label(LC("x"), LC(1)))) >>

ExactQueries == { Lit("f", <<>>), Lit("g", <<>>), Lit("both", <<V.X>>), Lit("h", <<V.X>>) }

ExactEdits == { Clause(Lit("g", <<>>), <<>>, <<>>, Label(LC("x"), LC(1))) }

NextExact ==
    \/ \E q \in ExactQueries : Ask("exact", q, TrueChecker)
    \/ StepProver
    \/ AskDone
    \/ \E c \in ExactEdits : AssertClause(c)
    \/ \E c \in ExactEdits : RetractClause(c)

InitExact == LoadedInit(ExactProgram) /\ ProverInit /\ UIdle /\ CtxIdle

SpecExact ==
    InitExact /\ [][NextExact]_vars

-----------------------------------------------------------------------------
(* The base prover in one world at a time, next to the exact prover.       *)

\* the partitionings of the labels of the stored clauses
Partitionings(d) == UNION {{l[1] : l \in labels(c.sentence)} : c \in StoredClauses(d)}

\* the worlds: one known part chosen for each partitioning
Worlds(d) == {w \in [Partitionings(d) -> UNION {parts(d, key) : key \in Partitionings(d)}] :
                \A key \in Partitionings(d) : w[key] \in parts(d, key)}

WorldsQueries == { Lit("f", <<>>), Lit("h", <<V.X>>), Lit("n", <<V.X>>) }

NextWorlds ==
    \/ \E q \in WorldsQueries : Ask("exact", q, TrueChecker)
    \/ \E q \in WorldsQueries : \E w \in Worlds(db) : Ask("base", q, WorldChecker(w))
    \/ StepProver
    \/ AskDone

InitWorlds == LoadedInit(ExactProgram) /\ ProverInit /\ UIdle /\ CtxIdle

SpecWorlds ==
    InitWorlds /\ [][NextWorlds]_vars

-----------------------------------------------------------------------------
(* worlds.equivalent and worlds.falsehood applied to ground sentences over *)
(* a knowledge base in which x has the parts 1 and 2, y the part 1 and z   *)
(* the parts 1, 2 and 3.  The calls of one behaviour come in any order, so *)
(* the BDD variables are registered in any order.                          *)

SentenceProgram ==
    << Clause(Lit("f", <<>>), <<>>, <<>>, Label(LC("x"), LC(1))),
       Clause(Lit("f", <<>>), <<>>, <<>>, Label(LC("x"), LC(2))),
       Clause(Lit("g", <<>>), <<>>, <<>>, Label(LC("y"), LC(1))),
       Clause(Lit("h", <<>>), <<>>, <<>>, Label(LC("z"), LC(1))),
       Clause(Lit("h", <<>>), <<>>, <<>>, Label(LC("z"), LC(2))),
       Clause(Lit("h", <<>>), <<>>, <<>>, Label(LC("z"), LC(3))) >>

\* labels of known parts, of a part that no clause names (x=3) and of a
\* partitioning that no clause names (w=1)
SLabels ==
    { Label(LC("x"), LC(1)), Label(LC("x"), LC(2)), Label(LC("x"), LC(3)),
      Label(LC("y"), LC(1)), Label(LC("z"), LC(1)), Label(LC("z"), LC(3)),
      Label(LC("w"), LC(1)) }

SLiterals == SLabels \cup {Negation(l) : l \in SLabels}

\* the terms of the two-term conjunctions and disjunctions
STerms ==
    { Label(LC("x"), LC(1)), Label(LC("x"), LC(2)), Negation(Label(LC("x"), LC(1))),
      Label(LC("y"), LC(1)), Label(LC("z"), LC(1)), Negation(Label(LC("z"), LC(3))) }

SBinary ==
    {Conjunction(<<a, b>>) : a \in STerms, b \in STerms}
    \cup {Disjunction(<<a, b>>) : a \in STerms, b \in STerms}

\* the first argument
SentencesL == {Top, Bottom} \cup SLiterals \cup SBinary

\* the second argument
SentencesR ==
    { Top, Bottom,
      Label(LC("x"), LC(1)), Label(LC("x"), LC(2)), Label(LC("x"), LC(3)),
      Negation(Label(LC("x"), LC(1))), Negation(Label(LC("x"), LC(2))),
      Label(LC("y"), LC(1)), Label(LC("z"), LC(1)),
      Disjunction(<<Label(LC("x"), LC(1)), Label(LC("x"), LC(2))>>),
      Conjunction(<<Label(LC("x"), LC(1)), Label(LC("x"), LC(2))>>),
      Conjunction(<<Label(LC("x"), LC(2)), Label(LC("y"), LC(1))>>),
      Disjunction(<<Label(LC("z"), LC(1)), Label(LC("z"), LC(2)), Label(LC("z"), LC(3))>>),
      Negation(Disjunction(<<Label(LC("z"), LC(1)), Label(LC("z"), LC(2))>>)),
      Label(LC("z"), LC(3)) }

\* the third argument
SentencesS ==
    { Top, Bottom, Label(LC("x"), LC(1)), Negation(Label(LC("x"), LC(2))),
      Negation(Conjunction(<<Negation(Label(LC("z"), LC(1))),
                             Negation(Label(LC("z"), LC(2)))>>)),
      Conjunction(<<Label(LC("x"), LC(1)), Negation(Label(LC("x"), LC(2)))>>),
      Disjunction(<<Label(LC("y"), LC(1)), Negation(Label(LC("y"), LC(1)))>>) }

\* the calls equivalent(sArgs[i], sArgs[j], kb) made in a behaviour: both
\* directions for a pair of sentences, the three pairs of a chain and one
\* sentence with itself for three sentences
EquivalentCalls ==
    IF Len(sArgs) = 2 THEN { <<1, 2>>, <<2, 1>> }
    ELSE { <<1, 2>>, <<2, 3>>, <<1, 3>>, <<1, 1>> }

SInit ==
    /\ sArgs \in (SentencesL \X SentencesR) \cup (SentencesR \X SentencesR \X SentencesS)
    /\ sRes = [c \in {} |-> FALSE]

\* worlds.equivalent(sArgs[i], sArgs[j], kb)
CallEquivalent(i, j) ==
    /\ <<i, j>> \notin DOMAIN sRes
    /\ EquivalentAsserts(sArgs[i], sArgs[j])
    /\ variables_rev' = RegisterPair(variables_rev, sArgs[i], sArgs[j], db)
    /\ sRes' = [c \in DOMAIN sRes \cup {<<i, j>>} |->
                  IF c = <<i, j>>
                  THEN equivalent(sArgs[i], sArgs[j], db,
                                  RegisterPair(variables_rev, sArgs[i], sArgs[j], db))
                  ELSE sRes[c]]
    /\ UNCHANGED <<prover, running, ctl, mins, err, fresh, log, choices, checks, events>>
    /\ UNCHANGED sArgs
    /\ UNCHANGED xVars
    /\ UNCHANGED kbVars
    /\ UNCHANGED uVars

\* worlds.falsehood(sArgs[i], kb)
CallFalsehood(i) ==
    /\ <<i>> \notin DOMAIN sRes
    /\ variables_rev' = RegisterSentence(variables_rev, sArgs[i], db)
    /\ sRes' = [c \in DOMAIN sRes \cup {<<i>>} |->
                  IF c = <<i>>
                  THEN falsehood(sArgs[i], db, RegisterSentence(variables_rev, sArgs[i], db))
                  ELSE sRes[c]]
    /\ UNCHANGED <<prover, running, ctl, mins, err, fresh, log, choices, checks, events>>
    /\ UNCHANGED sArgs
    /\ UNCHANGED xVars
    /\ UNCHANGED kbVars
    /\ UNCHANGED uVars

NextSentences ==
    \/ \E c \in EquivalentCalls : CallEquivalent(c[1], c[2])
    \/ Len(sArgs) = 2 /\ CallFalsehood(1)

InitSentences == LoadedInit(SentenceProgram) /\ ProverInit /\ UIdle /\ SInit /\ XIdle

SpecSentences ==
    InitSentences /\ [][NextSentences]_vars

-----------------------------------------------------------------------------
(* The contexts (judged/context.py).  A context is built on a Knowledge    *)
(* that takes the context as its argument, as the tests build it.          *)
(* Context.ask runs above the prover: the frames of `xctl` hold the        *)
(* position of each call, `hooks` records the calls of Context.ask and of  *)
(* the before_ask and after_ask handlers of the extensions.                *)

\* an extension whose handlers raise or do not
Extension(name, before_raises, after_raises) ==
    [name |-> name, before_raises |-> before_raises, after_raises |-> after_raises]

\* Context.add_probability
add_probability(c, partitioning, part, prob) ==
    LET old == IF partitioning \in DOMAIN c.prob THEN c.prob[partitioning] ELSE <<>>
        at == {i \in DOMAIN old : old[i][1] = part}
        items == IF at = {} THEN Append(old, <<part, prob>>)
                 ELSE [i \in DOMAIN old |-> IF i \in at THEN <<part, prob>> ELSE old[i]]
    IN [c EXCEPT !.prob = [k \in DOMAIN c.prob \cup {partitioning} |->
                              IF k = partitioning THEN items ELSE c.prob[k]]]

\* Context.use_extension, after the extension's setup
use_extension(c, ext) ==
    IF \E i \in DOMAIN c.extensions : c.extensions[i].name = ext.name
    THEN [c EXCEPT !.extensions = [i \in DOMAIN @ |-> IF @[i].name = ext.name THEN ext ELSE @[i]]]
    ELSE [c EXCEPT !.extensions = Append(@, ext)]

\* the kind of prover and the checker a context hands to it
ProverKind(c) == IF c.kind = "exact" THEN "exact" ELSE "base"

Checker(c) ==
    CASE c.kind = "deterministic" -> DeterministicChecker
      [] c.kind = "montecarlo" -> MontecarloChecker
      [] OTHER -> TrueChecker

\* Answer(clause, probability): the probability is <<>> for None, or
\* <<count, iterations>> for count / iterations
Answer(clause, probability) == [clause |-> clause, probability |-> probability]

\* Result(answers, **notes): noted tells whether the notes are there
NotedResult(answers, iterations, error_squared) ==
    [answers |-> answers, noted |-> TRUE, iterations |-> iterations,
     error_squared |-> error_squared]

PlainResult(answers) ==
    [answers |-> answers, noted |-> FALSE, iterations |-> 0, error_squared |-> Frac(0, 1)]

\* the value a call returns, or the exception it raises
Returned(v) == <<[raised |-> "", value |-> v]>>

Raised(e) == <<[raised |-> e, value |-> <<>>]>>

\* a frame of Context.ask: `entered` extensions are on the ExitStack
AskFrame(query) ==
    [f |-> "ask", query |-> query, pc |-> "enter", entered |-> 0, ret |-> <<>>]

HookEvent(hook, name) == [hook |-> hook, name |-> name]

\* an exception that nothing catches unwinds every frame; the generators of
\* _ask_extension on the ExitStack have no finally clause to run
Fail(e) ==
    /\ xctl' = <<>>
    /\ xres' = Raised(e)

\* the innermost frame becomes fr
Continue(fr) == xctl' = <<fr>> \o Tail(xctl)

AtFrame(f, pc) == xctl # <<>> /\ Head(xctl).f = f /\ Head(xctl).pc = pc /\ running = <<>>

\* Context.ask is called
BeginAsk(query) ==
    /\ xctl' = <<AskFrame(query)>> \o xctl
    /\ hooks' = Append(hooks, HookEvent("ask", ""))
    /\ xres' = <<>>

\* Context.ask enters the ask context of the next extension, whose
\* before_ask handlers run
AskBefore ==
    /\ AtFrame("ask", "enter")
    /\ Head(xctl).entered < Len(ctx.extensions)
    /\ LET ext == ctx.extensions[Head(xctl).entered + 1]
       IN IF ext.before_raises
          THEN /\ Fail("ExtensionError: before_ask")
               /\ hooks' = hooks \o <<HookEvent("before_ask", ext.name), HookEvent("raise", "")>>
          ELSE /\ Continue([Head(xctl) EXCEPT !.entered = @ + 1])
               /\ hooks' = Append(hooks, HookEvent("before_ask", ext.name))
               /\ UNCHANGED xres
    /\ UNCHANGED <<ctx, trace>>
    /\ UNCHANGED proverVars
    /\ UNCHANGED kbVars
    /\ UNCHANGED uVars
    /\ UNCHANGED sVars

\* Context._ask: the prover is asked with the context's check
AskProver ==
    /\ AtFrame("ask", "enter")
    /\ Head(xctl).entered = Len(ctx.extensions)
    /\ ctx.kind \in {"deterministic", "exact"}
    /\ StartAsk(ProverKind(ctx), Head(xctl).query, Checker(ctx))
    /\ Continue([Head(xctl) EXCEPT !.pc = "body"])
    /\ UNCHANGED <<ctx, xres, hooks, trace>>
    /\ UNCHANGED choices
    /\ UNCHANGED kbVars
    /\ UNCHANGED uVars
    /\ UNCHANGED sVars

\* the answers of the last finished ask of the prover, each with no
\* probability
PlainAnswers == [i \in DOMAIN log[Len(log)].answers |-> Answer(log[Len(log)].answers[i], <<>>)]

\* Context._ask returns the Result, or the exception of the prover passes
AskProverDone ==
    /\ AtFrame("ask", "body")
    /\ ctx.kind \in {"deterministic", "exact"}
    /\ IF log[Len(log)].err # ""
       THEN /\ Fail(log[Len(log)].err)
            /\ hooks' = Append(hooks, HookEvent("raise", ""))
       ELSE /\ Continue([Head(xctl) EXCEPT !.pc = "exit", !.ret = PlainResult(PlainAnswers)])
            /\ UNCHANGED <<xres, hooks>>
    /\ UNCHANGED <<ctx, trace>>
    /\ UNCHANGED proverVars
    /\ UNCHANGED kbVars
    /\ UNCHANGED uVars
    /\ UNCHANGED sVars

\* the ExitStack closes the ask context entered last: the after_ask handlers
\* of its extension run
AskAfter ==
    /\ AtFrame("ask", "exit")
    /\ Head(xctl).entered > 0
    /\ LET ext == ctx.extensions[Head(xctl).entered]
       IN IF ext.after_raises
          THEN /\ Fail("ExtensionError: after_ask")
               /\ hooks' = hooks \o <<HookEvent("after_ask", ext.name), HookEvent("raise", "")>>
          ELSE /\ Continue([Head(xctl) EXCEPT !.entered = @ - 1])
               /\ hooks' = Append(hooks, HookEvent("after_ask", ext.name))
               /\ UNCHANGED xres
    /\ UNCHANGED <<ctx, trace>>
    /\ UNCHANGED proverVars
    /\ UNCHANGED kbVars
    /\ UNCHANGED uVars
    /\ UNCHANGED sVars

\* Context.ask returns
AskReturn ==
    /\ AtFrame("ask", "exit")
    /\ Head(xctl).entered = 0
    /\ xctl' = Tail(xctl)
    /\ xres' = Returned(Head(xctl).ret)
    /\ hooks' = Append(hooks, HookEvent("return", ""))
    /\ UNCHANGED <<ctx, trace>>
    /\ UNCHANGED proverVars
    /\ UNCHANGED kbVars
    /\ UNCHANGED uVars
    /\ UNCHANGED sVars

\* the calls of Context.ask in one behaviour
MaxContextAsks == 2

ContextAsks == Cardinality({i \in DOMAIN hooks : hooks[i].hook = "ask"})

\* the caller asks the context
ContextAsk(query) ==
    /\ xctl = <<>>
    /\ running = <<>>
    /\ ContextAsks < MaxContextAsks
    /\ BeginAsk(query)
    /\ UNCHANGED <<ctx, trace>>
    /\ UNCHANGED proverVars
    /\ UNCHANGED kbVars
    /\ UNCHANGED uVars
    /\ UNCHANGED sVars

-----------------------------------------------------------------------------
(* The deterministic context: the caller selects parts, resets the         *)
(* selection and asks.                                                     *)

\* DeterministicContext.select_world_set
select_world_set(key, part) ==
    /\ xctl = <<>>
    /\ running = <<>>
    /\ choices' = [k \in DOMAIN choices \cup {key} |-> IF k = key THEN part ELSE choices[k]]
    /\ UNCHANGED <<prover, running, ctl, mins, err, fresh, variables_rev, log, checks, events>>
    /\ UNCHANGED xVars
    /\ UNCHANGED kbVars
    /\ UNCHANGED uVars
    /\ UNCHANGED sVars

\* DeterministicContext.reset_world_set
reset_world_set ==
    /\ xctl = <<>>
    /\ running = <<>>
    /\ choices' = <<>>
    /\ UNCHANGED <<prover, running, ctl, mins, err, fresh, variables_rev, log, checks, events>>
    /\ UNCHANGED xVars
    /\ UNCHANGED kbVars
    /\ UNCHANGED uVars
    /\ UNCHANGED sVars

DeterministicProgram ==
    << Clause(Lit("f", <<K.a>>), <<>>, <<>>, Label(LC("x"), LC(1))),
       Clause(Lit("f", <<K.b>>), <<>>, <<>>, Label(LC("x"), LC(2))),
       Clause(Lit("g", <<K.a>>), <<>>, <<>>, Label(LC("y"), LC(1))),
       Clause(Lit("n", <<K.a>>), <<>>, <<>>, Negation(Label(LC("x"), LC(1)))),
       Fact(Lit("p", <<K.a>>)) >>

DeterministicQueries == { Lit("f", <<V.X>>), Lit("g", <<V.X>>), Lit("n", <<V.X>>), Lit("p", <<V.X>>) }

XInit(c) ==
    /\ ctx = c
    /\ xctl = <<>>
    /\ xres = <<>>
    /\ hooks = <<>>
    /\ trace = <<>>

NextDeterministic ==
    \/ \E key \in {LC("x"), LC("y")} : \E part \in {LC(1), LC(2)} : select_world_set(key, part)
    \/ reset_world_set
    \/ \E q \in DeterministicQueries : ContextAsk(q)
    \/ AskProver
    \/ StepProver
    \/ AskDone
    \/ AskProverDone
    \/ AskReturn

InitDeterministic ==
    LoadedInit(DeterministicProgram) /\ ProverInit /\ UIdle /\ SIdle
    /\ XInit(NewContext("deterministic", 0, <<>>))

SpecDeterministic ==
    InitDeterministic /\ [][NextDeterministic]_vars

-----------------------------------------------------------------------------
(* The Monte Carlo context.  MontecarloContext._ask asks the prover once   *)
(* per iteration; `trace` records each finished _ask with the log entries  *)
(* of its iterations.                                                      *)

\* a frame of MontecarloContext._ask: the locals count, worlds (world ->
\* times seen) and answers (the items <<clause, times derived>> of the
\* Counter, in insertion order), and the number of log entries at its start
McFrame(query, first) ==
    [f |-> "mc", query |-> query, pc |-> "loop", count |-> 0, worlds |-> <<>>,
     answers |-> <<>>, first |-> first]

\* `answers[a] += 1` for each clause of the answer list
RECURSIVE CountAnswers(_, _)
CountAnswers(answers, found) ==
    IF found = <<>> THEN answers
    ELSE CountAnswers(
            IF \E i \in DOMAIN answers : answers[i][1] = Head(found)
            THEN [i \in DOMAIN answers |->
                     IF answers[i][1] = Head(found) THEN <<answers[i][1], answers[i][2] + 1>>
                     ELSE answers[i]]
            ELSE Append(answers, <<Head(found), 1>>),
            Tail(found))

\* `worlds[world] += 1`; a world is the dict choices at the end of the ask
CountWorld(worlds, world) ==
    IF \E i \in DOMAIN worlds : worlds[i][1] = world
    THEN [i \in DOMAIN worlds |->
             IF worlds[i][1] = world THEN <<world, worlds[i][2] + 1>> ELSE worlds[i]]
    ELSE Append(worlds, <<world, 1>>)

\* exact(w): the product of the probabilities of the chosen parts
RECURSIVE ProbOf(_, _)
ProbOf(items, part) ==
    IF Head(items)[1] = part THEN Head(items)[2] ELSE ProbOf(Tail(items), part)

RECURSIVE exact(_, _, _)
exact(prob, w, keys) ==
    IF keys = <<>> THEN Frac(1, 1)
    ELSE FracMul(ProbOf(prob[Head(keys)], w[Head(keys)]), exact(prob, w, Tail(keys)))

\* the sum of error(): (exact(w) - p(worlds[w])) ** 2 over the worlds seen
RECURSIVE ErrorSum(_, _, _)
ErrorSum(prob, worlds, count) ==
    IF worlds = <<>> THEN Frac(0, 1)
    ELSE FracAdd(FracMul(FracSub(exact(prob, Head(worlds)[1], SeqOfSet(DOMAIN Head(worlds)[1])),
                                 Frac(Head(worlds)[2], count)),
                         FracSub(exact(prob, Head(worlds)[1], SeqOfSet(DOMAIN Head(worlds)[1])),
                                 Frac(Head(worlds)[2], count))),
                 ErrorSum(prob, Tail(worlds), count))

\* the square of error(): the mean of the squared differences
error_squared(prob, worlds, count) ==
    FracMul(ErrorSum(prob, worlds, count), Frac(1, Len(worlds)))

\* `self.approximate is not None and error() <= self.approximate`, for an
\* approximate that is not negative
WithinTolerance(c, worlds, count) ==
    /\ c.approximate # <<>>
    /\ FracLeq(error_squared(c.prob, worlds, count),
               FracMul(c.approximate[1], c.approximate[1]))

\* a Result whose probabilities are c / number
McResult_by_number(c, fr) ==
    NotedResult([i \in DOMAIN fr.answers |->
                    Answer(fr.answers[i][1], <<fr.answers[i][2], c.number>>)],
                fr.count, error_squared(c.prob, fr.worlds, fr.count))

\* the Result of MontecarloContext._ask: p(c) = c / count for each answer
McResult(c, fr) ==
    NotedResult([i \in DOMAIN fr.answers |->
                    Answer(fr.answers[i][1], <<fr.answers[i][2], fr.count>>)],
                fr.count, error_squared(c.prob, fr.worlds, fr.count))

McEvent(fr, result) ==
    [event |-> "montecarlo", query |-> fr.query, first |-> fr.first + 1,
     last |-> Len(log), result |-> result]

\* MontecarloContext._ask returns to Context.ask
McReturn(fr) ==
    /\ xctl' = <<[xctl[2] EXCEPT !.pc = "exit", !.ret = McResult(ctx, fr)]>> \o Tail(Tail(xctl))
    /\ trace' = Append(trace, McEvent(fr, McResult(ctx, fr)))
    /\ UNCHANGED <<ctx, xres, hooks>>

\* MontecarloContext._ask begins: its loop over self.extensions iterates the
\* names of the extensions, and a name has no _do_before_ask
McEnter ==
    /\ AtFrame("ask", "enter")
    /\ Head(xctl).entered = Len(ctx.extensions)
    /\ ctx.kind = "montecarlo"
    /\ IF ctx.extensions # <<>>
       THEN /\ Fail("AttributeError: 'str' object has no attribute '_do_before_ask'")
            /\ hooks' = Append(hooks, HookEvent("raise", ""))
       ELSE /\ xctl' = <<McFrame(Head(xctl).query, Len(log)),
                         [Head(xctl) EXCEPT !.pc = "body"]>> \o Tail(xctl)
            /\ UNCHANGED <<xres, hooks>>
    /\ UNCHANGED <<ctx, trace>>
    /\ UNCHANGED proverVars
    /\ UNCHANGED kbVars
    /\ UNCHANGED uVars
    /\ UNCHANGED sVars

\* the test of the while loop and the start of an iteration: the choices
\* are cleared and the prover is asked
McLoop ==
    /\ AtFrame("mc", "loop")
    /\ IF ctx.number = 0 \/ Head(xctl).count < ctx.number
       THEN /\ Continue([Head(xctl) EXCEPT !.count = @ + 1, !.pc = "iter"])
            /\ choices' = <<>>
            /\ StartAsk("base", Head(xctl).query, MontecarloChecker)
            /\ UNCHANGED <<ctx, xres, hooks, trace>>
       ELSE /\ McReturn(Head(xctl))
            /\ UNCHANGED proverVars
    /\ UNCHANGED kbVars
    /\ UNCHANGED uVars
    /\ UNCHANGED sVars

\* the frame after the bookkeeping of an iteration
McCounted(fr, entry) ==
    [fr EXCEPT !.answers = CountAnswers(@, entry.answers),
               !.worlds = CountWorld(@, entry.choices),
               !.pc = "loop"]

\* the end of an iteration: the answers and the world are counted, and the
\* loop is left when the error is within the tolerance
McIteration ==
    /\ AtFrame("mc", "iter")
    /\ IF log[Len(log)].err # ""
       THEN /\ Fail(log[Len(log)].err)
            /\ hooks' = Append(hooks, HookEvent("raise", ""))
            /\ UNCHANGED <<ctx, trace>>
       ELSE IF WithinTolerance(ctx, McCounted(Head(xctl), log[Len(log)]).worlds, Head(xctl).count)
       THEN McReturn(McCounted(Head(xctl), log[Len(log)]))
       ELSE /\ Continue(McCounted(Head(xctl), log[Len(log)]))
            /\ UNCHANGED <<ctx, xres, hooks, trace>>
    /\ UNCHANGED proverVars
    /\ UNCHANGED kbVars
    /\ UNCHANGED uVars
    /\ UNCHANGED sVars

\* two facts that hold in the two halves of x, one that holds in the one
\* part of y, one that holds in both at once, and one that holds everywhere
MontecarloProgram ==
    << Clause(Lit("f", <<K.a>>), <<>>, <<>>, Label(LC("x"), LC(1))),
       Clause(Lit("f", <<K.b>>), <<>>, <<>>, Label(LC("x"), LC(2))),
       Clause(Lit("g", <<K.a>>), <<>>, <<>>, Label(LC("y"), LC(1))),
       Clause(Lit("h", <<K.a>>), <<>>, <<>>,
              Conjunction(<<Label(LC("x"), LC(1)), Label(LC("y"), LC(1))>>)),
       Fact(Lit("p", <<K.a>>)) >>

MontecarloQueries == { Lit("f", <<V.X>>), Lit("g", <<V.X>>), Lit("h", <<V.X>>), Lit("p", <<V.X>>) }

\* @P(x=1) = 0.5, @P(x=2) = 0.5, @P(y=1) = 1.0
MontecarloProb(c) ==
    add_probability(add_probability(add_probability(c, LC("x"), LC(1), Frac(1, 2)),
                                    LC("x"), LC(2), Frac(1, 2)),
                    LC("y"), LC(1), Frac(1, 1))

\* the largest number of iterations asked for
MaxNumber == 3

\* the contexts: number from 1 to MaxNumber; approximate 0 (the default),
\* None or 0.25
MontecarloContexts ==
    {MontecarloProb(NewContext("montecarlo", n, a)) :
        n \in 1..MaxNumber, a \in {<<Frac(0, 1)>>, <<>>, <<Frac(1, 4)>>}}

NextMontecarlo ==
    \/ \E q \in MontecarloQueries : ContextAsk(q)
    \/ McEnter
    \/ McLoop
    \/ StepProver
    \/ AskDone
    \/ McIteration
    \/ AskReturn

InitMontecarlo ==
    /\ LoadedInit(MontecarloProgram) /\ ProverInit /\ UIdle /\ SIdle
    /\ \E c \in MontecarloContexts : XInit(c)

SpecMontecarlo ==
    InitMontecarlo /\ [][NextMontecarlo]_vars

-----------------------------------------------------------------------------
(* Asking a context that uses extensions.  A handler of an extension may   *)
(* raise; the prover raises when the deterministic context has no part     *)
(* selected for a partitioning it must check.                              *)

ExtensionProgram ==
    << Clause(Lit("f", <<K.a>>), <<>>, <<>>, Label(LC("x"), LC(1))),
       Fact(Lit("p", <<K.a>>)) >>

ExtensionQueries == { Lit("f", <<V.X>>), Lit("p", <<V.X>>) }

\* the extensions e1 and e2, each with handlers that raise or do not
Extensions(name) == {Extension(name, b, a) : b \in BOOLEAN, a \in BOOLEAN}

\* the contexts: every class, using e1 or e1 and then e2
ExtensionContexts ==
    {use_extension(NewContext(kind, 1, <<>>), e1) :
        kind \in {"deterministic", "exact", "montecarlo"}, e1 \in Extensions("e1")}
    \cup {use_extension(use_extension(NewContext(kind, 1, <<>>), e1), e2) :
            kind \in {"deterministic", "exact", "montecarlo"},
            e1 \in Extensions("e1"), e2 \in Extensions("e2")}

NextExtensions ==
    \/ \E q \in ExtensionQueries : ContextAsk(q)
    \/ AskBefore
    \/ AskProver
    \/ McEnter
    \/ StepProver
    \/ AskDone
    \/ AskProverDone
    \/ AskAfter
    \/ AskReturn

InitExtensions ==
    /\ LoadedInit(ExtensionProgram) /\ ProverInit /\ UIdle /\ SIdle
    /\ \E c \in ExtensionContexts : XInit(c)

SpecExtensions ==
    InitExtensions /\ [][NextExtensions]_vars

-----------------------------------------------------------------------------
(* Actions (judged/actions.py).  An action is performed on the context;    *)
(* the frames of `xctl` hold the position of CompoundAction.perform,       *)
(* GeneratorAction.perform and QueryAction.perform.  `trace` records each  *)
(* call of perform with the knowledge base it found, each Result a         *)
(* generator got, and each return of perform with its value.               *)

AssertAction(clause) == [act |-> "assert", clause |-> clause]

RetractAction(clause) == [act |-> "retract", clause |-> clause]

QueryAction(clause) == [act |-> "query", clause |-> clause]

CompoundAction(children) == [act |-> "compound", children |-> children]

GeneratorAction(children, query_clause) ==
    [act |-> "generator", children |-> children, query_clause |-> query_clause]

\* the value of a call that returns nothing
None == <<>>

\* substitute(env) of each class of action
RECURSIVE Action_substitute(_, _)
Action_substitute(a, env) ==
    CASE a.act = "compound" ->
            CompoundAction([i \in DOMAIN a.children |-> Action_substitute(a.children[i], env)])
      [] a.act = "generator" ->
            GeneratorAction([i \in DOMAIN a.children |-> Action_substitute(a.children[i], env)],
                            Clause_subst(a.query_clause, env))
      [] OTHER -> [a EXCEPT !.clause = Clause_subst(@, env)]

CompoundFrame(a, depth) ==
    [f |-> "compound", action |-> a, pc |-> "loop", i |-> 1, last |-> None, depth |-> depth]

GeneratorFrame(a, depth) ==
    [f |-> "generator", action |-> a, pc |-> "asked", answers |-> <<>>, k |-> 1,
     todo |-> <<>>, j |-> 1, depth |-> depth]

QueryFrame(a, depth) == [f |-> "query", action |-> a, pc |-> "asked", depth |-> depth]

PerformEvent(a, depth) == [event |-> "perform", action |-> a, depth |-> depth, db |-> db]

DoneEvent(depth, value, d) == [event |-> "done", depth |-> depth, value |-> value, db |-> d]

ResultEvent(depth, result) == [event |-> "result", depth |-> depth, result |-> result]

\* AssertAction.perform: assert_clause stores the clause or raises
AssertPerformed(a, depth, rest, r) ==
    /\ db' = r.db
    /\ kbOp' = [op |-> "assert", clause |-> a.clause, raised |-> r.raised]
    /\ kbPrev' = db
    /\ UNCHANGED <<prim, registered>>
    /\ IF r.raised
       THEN /\ Fail("JudgedError: unsafe clause")
            /\ trace' = Append(trace, PerformEvent(a, depth))
       ELSE /\ xctl' = rest
            /\ xres' = Returned(None)
            /\ trace' = trace \o <<PerformEvent(a, depth), DoneEvent(depth, None, r.db)>>
    /\ UNCHANGED hooks

\* RetractAction.perform
RetractPerformed(a, depth, rest, d) ==
    /\ db' = d
    /\ kbOp' = [op |-> "retract", clause |-> a.clause, raised |-> FALSE]
    /\ kbPrev' = db
    /\ UNCHANGED <<prim, registered>>
    /\ xctl' = rest
    /\ xres' = Returned(None)
    /\ trace' = trace \o <<PerformEvent(a, depth), DoneEvent(depth, None, d)>>
    /\ UNCHANGED hooks

\* a call of context.ask(query) made by the frame fr
AskPerformed(a, depth, rest, query, fr) ==
    /\ xctl' = <<AskFrame(query), fr>> \o rest
    /\ xres' = <<>>
    /\ hooks' = Append(hooks, HookEvent("ask", ""))
    /\ trace' = Append(trace, PerformEvent(a, depth))
    /\ UNCHANGED kbVars

\* action.perform(context, reporter), called with the frames `rest` below
Perform(a, depth, rest) ==
    CASE a.act = "assert" -> AssertPerformed(a, depth, rest, assert_clause(db, a.clause))
      [] a.act = "retract" -> RetractPerformed(a, depth, rest, retract_clause(db, a.clause))
      [] a.act = "query" -> AskPerformed(a, depth, rest, a.clause.head, QueryFrame(a, depth))
      [] a.act = "generator" ->
            AskPerformed(a, depth, rest, a.query_clause.head, GeneratorFrame(a, depth))
      [] a.act = "compound" ->
            /\ xctl' = <<CompoundFrame(a, depth)>> \o rest
            /\ xres' = <<>>
            /\ trace' = Append(trace, PerformEvent(a, depth))
            /\ UNCHANGED <<hooks, db, kbOp, kbPrev, prim, registered>>

\* perform returns value to its caller
PerformReturn(fr, value, evs) ==
    /\ xctl' = Tail(xctl)
    /\ xres' = Returned(value)
    /\ trace' = trace \o evs \o <<DoneEvent(fr.depth, value, db)>>
    /\ UNCHANGED <<hooks, db, kbOp, kbPrev, prim, registered>>

\* QueryAction.perform returns the Result of context.ask
QueryDone ==
    /\ AtFrame("query", "asked")
    /\ PerformReturn(Head(xctl), xres[1].value, <<>>)
    /\ UNCHANGED ctx
    /\ UNCHANGED proverVars
    /\ UNCHANGED uVars
    /\ UNCHANGED sVars

\* CompoundAction.perform: the next child is performed, or the last result
\* is returned after the last child
CompoundNext ==
    /\ AtFrame("compound", "loop")
    /\ IF Head(xctl).i > Len(Head(xctl).action.children)
       THEN PerformReturn(Head(xctl), Head(xctl).last, <<>>)
       ELSE Perform(Head(xctl).action.children[Head(xctl).i], Head(xctl).depth + 1,
                    <<[Head(xctl) EXCEPT !.pc = "wait"]>> \o Tail(xctl))
    /\ UNCHANGED ctx
    /\ UNCHANGED proverVars
    /\ UNCHANGED uVars
    /\ UNCHANGED sVars

\* a CompoundAction.perform that returns after its first child
CompoundChildDone_first(fr, value) ==
    [fr EXCEPT !.last = value, !.i = Len(fr.action.children) + 1, !.pc = "loop"]

\* `last_result = action.perform(context, reporter)` has returned
CompoundChildDone(fr, value) ==
    [fr EXCEPT !.last = value, !.i = @ + 1, !.pc = "loop"]

CompoundResume ==
    /\ AtFrame("compound", "wait")
    /\ Continue(CompoundChildDone(Head(xctl), xres[1].value))
    /\ UNCHANGED <<ctx, xres, hooks, trace>>
    /\ UNCHANGED proverVars
    /\ UNCHANGED kbVars
    /\ UNCHANGED uVars
    /\ UNCHANGED sVars

\* `result.notes and result.notes.get('iterations') != 1`
NonExact(result) == result.noted /\ result.iterations # 1

\* GeneratorAction.perform after context.ask: a result that is not exact
\* ends the action
GeneratorAsked ==
    /\ AtFrame("generator", "asked")
    /\ IF NonExact(xres[1].value)
       THEN PerformReturn(Head(xctl), None, <<ResultEvent(Head(xctl).depth, xres[1].value)>>)
       ELSE /\ Continue([Head(xctl) EXCEPT !.answers = xres[1].value.answers, !.pc = "loop"])
            /\ trace' = Append(trace, ResultEvent(Head(xctl).depth, xres[1].value))
            /\ UNCHANGED <<xres, hooks, db, kbOp, kbPrev, prim, registered>>
    /\ UNCHANGED ctx
    /\ UNCHANGED proverVars
    /\ UNCHANGED uVars
    /\ UNCHANGED sVars

\* `answer.probability is not None and answer.probability != 1.0`, or a
\* sentence that is not Top
Skipped(answer) ==
    \/ answer.probability # <<>> /\ answer.probability[1] # answer.probability[2]
    \/ answer.clause.sentence # Top

\* `[c.substitute(env) for c in self.children]` for the env of the answer
Substituted(a, answer) ==
    [i \in DOMAIN a.children |->
        Action_substitute(a.children[i],
                          Literal_unify(a.query_clause.head, answer.clause.head).env)]

\* the loop over result.answers: an answer is skipped, or the children are
\* substituted for it; after the last answer perform returns
GeneratorLoop ==
    /\ AtFrame("generator", "loop")
    /\ IF Head(xctl).k > Len(Head(xctl).answers)
       THEN PerformReturn(Head(xctl), None, <<>>)
       ELSE /\ IF Skipped(Head(xctl).answers[Head(xctl).k])
               THEN Continue([Head(xctl) EXCEPT !.k = @ + 1])
               ELSE Continue([Head(xctl) EXCEPT
                                 !.todo = Substituted(Head(xctl).action,
                                                      Head(xctl).answers[Head(xctl).k]),
                                 !.j = 1, !.pc = "children"])
            /\ UNCHANGED <<xres, hooks, trace, db, kbOp, kbPrev, prim, registered>>
    /\ UNCHANGED ctx
    /\ UNCHANGED proverVars
    /\ UNCHANGED uVars
    /\ UNCHANGED sVars

\* the loop over the substituted children of one answer
GeneratorChild ==
    /\ AtFrame("generator", "children")
    /\ IF Head(xctl).j > Len(Head(xctl).todo)
       THEN /\ Continue([Head(xctl) EXCEPT !.k = @ + 1, !.pc = "loop"])
            /\ UNCHANGED <<xres, hooks, trace, db, kbOp, kbPrev, prim, registered>>
       ELSE Perform(Head(xctl).todo[Head(xctl).j], Head(xctl).depth + 1,
                    <<[Head(xctl) EXCEPT !.pc = "wait"]>> \o Tail(xctl))
    /\ UNCHANGED ctx
    /\ UNCHANGED proverVars
    /\ UNCHANGED uVars
    /\ UNCHANGED sVars

\* a child of the generator has returned
GeneratorResume ==
    /\ AtFrame("generator", "wait")
    /\ Continue([Head(xctl) EXCEPT !.j = @ + 1, !.pc = "children"])
    /\ UNCHANGED <<ctx, xres, hooks, trace>>
    /\ UNCHANGED proverVars
    /\ UNCHANGED kbVars
    /\ UNCHANGED uVars
    /\ UNCHANGED sVars

\* the actions the caller performs in one behaviour
MaxPerforms == 2

Performs == Cardinality({i \in DOMAIN trace : trace[i].event = "perform" /\ trace[i].depth = 0})

\* the caller performs an action on the context
PerformAction(a) ==
    /\ xctl = <<>>
    /\ running = <<>>
    /\ Performs < MaxPerforms
    /\ Perform(a, 0, <<>>)
    /\ UNCHANGED ctx
    /\ UNCHANGED proverVars
    /\ UNCHANGED uVars
    /\ UNCHANGED sVars

ActionProgram ==
    << Fact(Lit("p", <<K.a>>)),
       Clause(Lit("f", <<K.a>>), <<>>, <<>>, Label(LC("x"), LC(1))) >>

\* a clause that assert_clause rejects
UnsafeFact == Fact(Lit("q", <<V.X>>))

\* batches: one that fails at its second child, one that ends with a
\* query, one whose second child is a batch that fails at its second child
Batches ==
    { CompoundAction(<<AssertAction(Fact(Lit("q", <<K.a>>))), AssertAction(UnsafeFact),
                       AssertAction(Fact(Lit("r", <<K.a>>)))>>),
      CompoundAction(<<RetractAction(Fact(Lit("p", <<K.a>>))),
                       AssertAction(Fact(Lit("q", <<K.b>>))),
                       QueryAction(Fact(Lit("q", <<V.X>>)))>>),
      CompoundAction(<<AssertAction(Fact(Lit("r", <<K.a>>))),
                       CompoundAction(<<AssertAction(Fact(Lit("q", <<K.a>>))),
                                        AssertAction(UnsafeFact)>>)>>) }

\* generators: over the answers of p(X) and of f(X), and one in a batch
Generators ==
    { GeneratorAction(<<AssertAction(Fact(Lit("q", <<V.X>>)))>>, Fact(Lit("p", <<V.X>>))),
      GeneratorAction(<<AssertAction(Fact(Lit("q", <<V.X>>))),
                        QueryAction(Fact(Lit("q", <<V.X>>)))>>, Fact(Lit("f", <<V.X>>))),
      CompoundAction(<<GeneratorAction(<<AssertAction(Fact(Lit("r", <<V.X>>)))>>,
                                       Fact(Lit("p", <<V.X>>))),
                       QueryAction(Fact(Lit("r", <<V.Y>>)))>>) }

\* @P(x=1) = 0.5, @P(x=2) = 0.5
ActionProb(c) ==
    add_probability(add_probability(c, LC("x"), LC(1), Frac(1, 2)), LC("x"), LC(2), Frac(1, 2))

\* the contexts: every class; the Monte Carlo context runs one iteration,
\* or two with no tolerance to stop it earlier
ActionContexts ==
    { NewContext("deterministic", 0, <<>>), NewContext("exact", 0, <<>>),
      ActionProb(NewContext("montecarlo", 1, <<>>)),
      ActionProb(NewContext("montecarlo", 2, <<>>)) }

NextActions ==
    \/ \E a \in Batches \cup Generators : PerformAction(a)
    \/ CompoundNext
    \/ CompoundResume
    \/ GeneratorAsked
    \/ GeneratorLoop
    \/ GeneratorChild
    \/ GeneratorResume
    \/ QueryDone
    \/ AskProver
    \/ McEnter
    \/ McLoop
    \/ McIteration
    \/ StepProver
    \/ AskDone
    \/ AskProverDone
    \/ AskReturn

InitActions ==
    /\ LoadedInit(ActionProgram) /\ ProverInit /\ UIdle /\ SIdle
    /\ \E c \in ActionContexts : XInit(c)

SpecActions ==
    InitActions /\ [][NextActions]_vars

-----------------------------------------------------------------------------
(* The clauses of a literal.  The prover calls kb.clauses(literal, prover) *)
(* for the literal of a subgoal; here the caller does, on a knowledge base *)
(* it has edited, and kbOp records what the call yielded.                  *)

\* list(kb.clauses(literal, prover))
CallClauses(literal) ==
    /\ running = <<>>
    /\ kbOp' = [op |-> "clauses", clause |-> Fact(literal), raised |-> FALSE,
                yielded |-> kb_clauses(prim, db, literal)]
    /\ kbPrev' = db
    /\ UNCHANGED <<prim, registered>>
    /\ UNCHANGED db
    /\ UNCHANGED proverVars
    /\ UNCHANGED uVars
    /\ UNCHANGED ctxVars

\* the clauses asserted and retracted: facts, a rule, a fact of =/2, a fact
\* with a sentence, and a fact whose sentence holds a variable
ClausesProgram ==
    { Fact(Lit("p", <<K.a>>)),
      Rule(Lit("q", <<V.X>>), <<Lit("p", <<V.X>>)>>),
      Fact(Lit("=", <<K.a, K.b>>)),
      Clause(Lit("f", <<K.a>>), <<>>, <<>>, Label(LC("x"), LC(1))),
      Clause(Lit("f", <<K.b>>), <<>>, <<>>, Label(LF("p", <<V.X>>), LC(2))) }

\* the literals whose clauses are asked for
ClausesLiterals ==
    { Lit("=", <<V.X, V.Y>>), Lit("=", <<V.X, K.a>>), Lit("=", <<K.a, K.a>>),
      Lit("=", <<K.a, K.b>>), Lit("=", <<V.X, V.X>>),
      Lit("p", <<V.X>>), Lit("q", <<K.a>>), Lit("f", <<V.X>>), Lit("r", <<V.X>>) }

NextClauses ==
    \/ \E c \in ClausesProgram : AssertClause(c)
    \/ \E c \in ClausesProgram : RetractClause(c)
    \/ \E l \in ClausesLiterals : CallClauses(l)

InitClauses == KBInit /\ ProverInit /\ UIdle /\ CtxIdle

SpecClauses ==
    InitClauses /\ [][NextClauses]_vars

-----------------------------------------------------------------------------
(* Primitives.  The caller couples generators to predicates, asserts and   *)
(* retracts clauses, and asks for the clauses of a literal.                *)

\* the calls of add_primitive in one behaviour, after the built-in one
MaxPrimitives == 2

\* kb.add_primitive(predicate, gen)
AddPrimitive(predicate, gen) ==
    /\ running = <<>>
    /\ Len(registered) <= MaxPrimitives
    /\ prim' = add_primitive(prim, predicate, gen)
    /\ registered' = Append(registered, <<predicate, gen>>)
    /\ kbOp' = [op |-> "add_primitive", clause |-> kbOp.clause, raised |-> FALSE]
    /\ kbPrev' = db
    /\ UNCHANGED db
    /\ UNCHANGED proverVars
    /\ UNCHANGED uVars
    /\ UNCHANGED ctxVars

\* the generators: two in the style of testpred
PrimitiveGenerators == { TestGenerator(<<K.a, K.b>>), TestGenerator(<<K.c>>) }

PrimitivePredicates == { <<"t", 1>>, <<"u", 1>> }

PrimitiveProgram ==
    { Fact(Lit("t", <<K.a>>)), Fact(Lit("t", <<K.c>>)), Fact(Lit("u", <<K.a>>)) }

PrimitiveLiterals == { Lit("t", <<V.X>>), Lit("t", <<K.a>>), Lit("u", <<V.X>>) }

NextPrimitives ==
    \/ \E pred \in PrimitivePredicates : \E gen \in PrimitiveGenerators : AddPrimitive(pred, gen)
    \/ \E c \in PrimitiveProgram : AssertClause(c)
    \/ \E c \in PrimitiveProgram : RetractClause(c)
    \/ \E l \in PrimitiveLiterals : CallClauses(l)

InitPrimitives == KBInit /\ ProverInit /\ UIdle /\ CtxIdle

SpecPrimitives ==
    InitPrimitives /\ [][NextPrimitives]_vars

-----------------------------------------------------------------------------
(* Asserting and retracting clauses, two of them with the same id: the     *)
(* sentence of the one is a label, that of the other the `and` of that     *)
(* label alone.                                                            *)

RetractProgram ==
    { Fact(Lit("p", <<K.a>>)),
      Fact(Lit("p", <<K.b>>)),
      Rule(Lit("q", <<V.X>>), <<Lit("p", <<V.X>>)>>),
      Clause(Lit("f", <<K.a>>), <<>>, <<>>, Label(LC("x"), LC(1))),
      Clause(Lit("f", <<K.a>>), <<>>, <<>>, Conjunction(<<Label(LC("x"), LC(1))>>)),
      Clause(Lit("f", <<K.a>>), <<>>, <<>>, Label(LC("x"), LC(2))),
      \* a clause that is never stored
      Fact(Lit("q", <<V.X>>)) }

NextRetract ==
    \/ \E c \in RetractProgram : AssertClause(c)
    \/ \E c \in RetractProgram : RetractClause(c)

InitRetract == KBInit /\ ProverInit /\ UIdle /\ CtxIdle

SpecRetract ==
    InitRetract /\ [][NextRetract]_vars

-----------------------------------------------------------------------------
(* The exact prover on a program with negative body literals.              *)

ExactNegationProgram ==
    << Clause(Lit("e", <<K.a>>), <<>>, <<>>, Label(LC("x"), LC(1))),
       Fact(Lit("u", <<K.a>>)),
       Fact(Lit("u", <<K.b>>)),
       Rule(Lit("t", <<V.X>>), <<Lit("u", <<V.X>>), NegLit("e", <<V.X>>)>>),
       Rule(Lit("w", <<V.X>>), <<Lit("u", <<V.X>>)>>),
       Rule(Lit("s", <<K.a>>), <<NegLit("e", <<K.b>>)>>) >>

ExactNegationQueries ==
    { Lit("t", <<V.X>>), Lit("w", <<V.X>>), Lit("s", <<K.a>>), Lit("e", <<V.X>>) }

NextExactNegation ==
    \/ \E q \in ExactNegationQueries : Ask("exact", q, TrueChecker)
    \/ StepProver
    \/ AskDone

InitExactNegation == LoadedInit(ExactNegationProgram) /\ ProverInit /\ UIdle /\ CtxIdle

SpecExactNegation ==
    InitExactNegation /\ [][NextExactNegation]_vars

-----------------------------------------------------------------------------
(* The base prover on clauses whose bodies mix positive, ground negative   *)
(* and, after resolution with a non-ground answer, non-ground negative     *)
(* literals.                                                               *)

SelectProgram ==
    << Fact(Lit("p", <<K.a>>)),
       Fact(Lit("p", <<K.b>>)),
       Fact(Lit("r", <<K.a>>)),
       Rule(Lit("q", <<V.X>>), <<NegLit("r", <<V.X>>), Lit("p", <<V.X>>)>>),
       Rule(Lit("t", <<K.a>>), <<NegLit("u", <<K.a>>), NegLit("r", <<K.b>>)>>),
       Rule(Lit("d", <<V.Y, V.Y>>), <<Lit("r", <<V.Y>>)>>),
       Rule(Lit("w", <<V.X>>), <<NegLit("r", <<V.X>>), Lit("d", <<V.X, K.a>>),
                                 NegLit("u", <<K.a>>)>>) >>

SelectQueries == { Lit("q", <<V.X>>), Lit("t", <<K.a>>), Lit("w", <<V.X>>) }

NextSelect ==
    \/ \E q \in SelectQueries : Ask("base", q, TrueChecker)
    \/ StepProver
    \/ AskDone

InitSelect == LoadedInit(SelectProgram) /\ ProverInit /\ UIdle /\ CtxIdle

SpecSelect ==
    InitSelect /\ [][NextSelect]_vars

-----------------------------------------------------------------------------
(* The base prover on left and right recursion over a cyclic relation, on  *)
(* negation through recursion, on stratified negation over recursion and   *)
(* on clauses that wait for conditional answers.                           *)

TablesProgram ==
    << Fact(Lit("e", <<K.a, K.b>>)),
       Fact(Lit("e", <<K.b, K.a>>)),
       Fact(Lit("e", <<K.b, K.c>>)),
       Rule(Lit("path", <<V.X, V.Y>>), <<Lit("path", <<V.X, V.Z>>), Lit("e", <<V.Z, V.Y>>)>>),
       Rule(Lit("path", <<V.X, V.Y>>), <<Lit("e", <<V.X, V.Y>>)>>),
       Rule(Lit("reach", <<V.X, V.Y>>), <<Lit("e", <<V.X, V.Z>>), Lit("reach", <<V.Z, V.Y>>)>>),
       Rule(Lit("reach", <<V.X, V.Y>>), <<Lit("e", <<V.X, V.Y>>)>>),
       Rule(Lit("win", <<V.X>>), <<Lit("e", <<V.X, V.Y>>), NegLit("win", <<V.Y>>)>>),
       Rule(Lit("n", <<>>), <<NegLit("m", <<>>)>>),
       Rule(Lit("m", <<>>), <<NegLit("n", <<>>)>>),
       Rule(Lit("k", <<>>), <<Lit("n", <<>>)>>),
       Rule(Lit("j", <<>>), <<Lit("k", <<>>), Lit("n", <<>>)>>),
       Rule(Lit("dead", <<V.X>>), <<Lit("e", <<V.Y, V.X>>), NegLit("path", <<V.X, V.X>>)>>) >>

TablesQueries ==
    { Lit("path", <<K.a, V.Y>>), Lit("reach", <<K.a, V.Y>>), Lit("win", <<K.a>>),
      Lit("n", <<>>), Lit("j", <<>>), Lit("dead", <<V.X>>) }

NextTables ==
    \/ \E q \in TablesQueries : Ask("base", q, TrueChecker)
    \/ StepProver
    \/ AskDone

InitTables == LoadedInit(TablesProgram) /\ ProverInit /\ UIdle /\ CtxIdle

SpecTables ==
    InitTables /\ [][NextTables]_vars

\* Python runs a call of ask to its end once the caller iterates it: the steps
\* of the prover and the return of ask are taken as long as they are enabled
\* (weak fairness of both).  A step of the prover can be taken exactly when an
\* ask runs with a call on its stack, and it always changes the state, so
\* WF_vars(StepProver) is written out with that condition for ENABLED.
StepProverEnabled == running # <<>> /\ ctl # <<>>

FairTables ==
    /\ SpecTables
    /\ WF_vars(AskDone)
    /\ ([]<>~StepProverEnabled) \/ ([]<><<StepProver>>_vars)

-----------------------------------------------------------------------------
(* The exact prover on rules whose sentence has a label function over a    *)
(* variable of the rule; p(a) and p(b) have the parts 1 and 2.             *)

LabelFunctionProgram ==
    << Fact(Lit("g", <<K.a>>)),
       Fact(Lit("g", <<K.b>>)),
       Clause(Lit("f", <<V.X>>), <<Lit("g", <<V.X>>)>>, <<>>, Label(LF("p", <<V.X>>), LC(2))),
       Clause(Lit("f", <<V.X>>), <<Lit("g", <<V.X>>)>>, <<>>, Label(LF("p", <<V.X>>), LC(1))),
       Clause(Lit("h", <<V.X>>), <<Lit("g", <<V.X>>)>>, <<>>, Label(LC("x"), LC(1))),
       Clause(Lit("i", <<V.X>>), <<Lit("g", <<V.X>>)>>, <<>>, Label(LF("p", <<V.X>>), LC(1))) >>

LabelFunctionQueries ==
    { Lit("f", <<V.X>>), Lit("f", <<K.a>>), Lit("h", <<V.X>>), Lit("i", <<K.b>>) }

NextLabelFunction ==
    \/ \E q \in LabelFunctionQueries : Ask("exact", q, TrueChecker)
    \/ StepProver
    \/ AskDone

InitLabelFunction == LoadedInit(LabelFunctionProgram) /\ ProverInit /\ UIdle /\ CtxIdle

SpecLabelFunction ==
    InitLabelFunction /\ [][NextLabelFunction]_vars

-----------------------------------------------------------------------------
(* Properties.                                                             *)

\* the three conditions of a safe clause: every head variable is in a body
\* literal, every variable of a negated body literal is in a positive body
\* literal, every variable of the sentence's labels is in the head or body
SafeClause(c) ==
    LET pos == {i \in DOMAIN c.body : c.body[i].polarity}
        neg == DOMAIN c.body \ pos
    IN /\ LitVars(c.head) \subseteq litsVars(c.body)
       /\ UNION {LitVars(c.body[i]) : i \in neg} \subseteq UNION {LitVars(c.body[i]) : i \in pos}
       /\ SentenceVars(c.sentence) \subseteq LitVars(c.head) \cup litsVars(c.body)

\* a literal of the predicate pred, to ask kb.clauses for its clauses
Probe(pred) == [pred |-> pred, terms |-> [i \in 1..pred[2] |-> V.X], polarity |-> TRUE]

\* C1: assert_clause called with a clause that is not safe raises an error
\* and leaves the knowledge base as it was: for every predicate, kb.clauses
\* yields the same clauses before and after the call.
C1_UnsafeAssertRejected ==
    (kbOp.op = "assert" /\ ~SafeClause(kbOp.clause)) =>
        /\ kbOp.raised
        /\ \A pred \in DOMAIN db \cup DOMAIN kbPrev \cup {kbOp.clause.head.pred} :
              clauses(db, Probe(pred)) = clauses(kbPrev, Probe(pred))

\* C2: after any sequence of assert_clause and retract_clause calls every
\* stored clause is safe in all three senses.
C2_StoredClausesSafe == \A c \in StoredClauses(db) : SafeClause(c)

\* ---- the models of a knowledge base, computed bottom-up ----

ClauseVars(c) == LitVars(c.head) \cup litsVars(c.body)

\* the constants of the literals of the stored clauses
KbConstants(d) ==
    UNION {UNION {{l.terms[i] : i \in {j \in DOMAIN l.terms : is_const(l.terms[j])}} :
                   l \in {c.head} \cup Range(c.body)} : c \in StoredClauses(d)}

\* the predicates of the literals of the stored clauses
KbPredicates(d) ==
    UNION {{l.pred : l \in {c.head} \cup Range(c.body)} : c \in StoredClauses(d)}

\* the predicates that q depends on, q itself included
RECURSIVE DependsOn(_, _)
DependsOn(d, seen) ==
    LET more == seen \cup UNION {{l.pred : l \in Range(c.body)} :
                                  c \in {c \in StoredClauses(d) : c.head.pred \in seen}}
    IN IF more = seen THEN seen ELSE DependsOn(d, more)

\* no predicate depends on itself through a negative literal
Stratified(d) ==
    \A c \in StoredClauses(d) : \A i \in DOMAIN c.body :
        ~c.body[i].polarity => c.head.pred \notin DependsOn(d, {c.body[i].pred})

NegationFree(d) == \A c \in StoredClauses(d) : \A i \in DOMAIN c.body : c.body[i].polarity

TopOnly(d) == \A c \in StoredClauses(d) : c.sentence = Top

\* the ground instances of the heads of the clauses cs whose bodies hold in
\* facts: a positive literal holds when it is a fact, a negative one when
\* its atom is not
Consequences(cs, consts, facts) ==
    UNION {{Literal_subst(c.head, env) :
              env \in {e \in [ClauseVars(c) -> consts] :
                         \A i \in DOMAIN c.body :
                             IF c.body[i].polarity
                             THEN Literal_subst(c.body[i], e) \in facts
                             ELSE invert(Literal_subst(c.body[i], e)) \notin facts}} :
            c \in cs}

RECURSIVE Closure(_, _, _)
Closure(cs, consts, facts) ==
    LET more == facts \cup Consequences(cs, consts, facts)
    IN IF more = facts THEN facts ELSE Closure(cs, consts, more)

\* the model of a stratified knowledge base: the predicates are closed one
\* at a time, a predicate after all those it depends on negatively
RECURSIVE ModelFrom(_, _, _)
ModelFrom(d, done, facts) ==
    LET ready == {p \in KbPredicates(d) \ done :
                    \A c \in StoredClauses(d) : \A i \in DOMAIN c.body :
                        (c.head.pred \in DependsOn(d, {p}) /\ ~c.body[i].polarity)
                            => c.body[i].pred \in done}
        layer == UNION {DependsOn(d, {p}) : p \in ready}
    IN IF ready = {} THEN facts
       ELSE ModelFrom(d, done \cup layer,
                      Closure({c \in StoredClauses(d) : c.head.pred \in layer \ done},
                              KbConstants(d), facts))

\* the least model of a negation-free knowledge base, and the stratified
\* model of one with stratified negation
PerfectModel(d) == ModelFrom(d, {}, {})

\* the ground atoms of a model that are instances of the query
Instances(d, query) ==
    {h \in PerfectModel(d) : \E env \in [LitVars(query) -> KbConstants(d)] :
                                Literal_subst(query, env) = h}

\* the heads of the answers of a finished ask
Heads(e) == {e.answers[i].head : i \in DOMAIN e.answers}

\* C3: on a knowledge base of negation-free clauses with Top sentences the
\* base prover returns exactly the ground instances of the query in the least
\* model, each head once.
C3_PositiveLeastModel ==
    \A i \in DOMAIN log :
        (log[i].kind = "base" /\ NegationFree(log[i].db) /\ TopOnly(log[i].db)) =>
            /\ log[i].err = ""
            /\ Heads(log[i]) = Instances(log[i].db, log[i].query)
            /\ Cardinality(Heads(log[i])) = Len(log[i].answers)

\* C4: on a knowledge base with stratified negation the base prover returns
\* exactly the ground instances of the query that hold in the stratified
\* model.
C4_StratifiedModel ==
    \A i \in DOMAIN log :
        (log[i].kind = "base" /\ Stratified(log[i].db) /\ TopOnly(log[i].db)) =>
            /\ log[i].err = ""
            /\ Heads(log[i]) = Instances(log[i].db, log[i].query)

\* C5: the answers of an ask depend only on the knowledge base, the query
\* and the checker: two asks of one prover with the same three give the same
\* answers, whatever was asked, asserted or retracted before.
C5_AnswersDependOnKbOnly ==
    \A i, j \in DOMAIN log :
        (/\ log[i].kind = log[j].kind
         /\ log[i].db = log[j].db
         /\ log[i].query = log[j].query
         /\ log[i].checker = log[j].checker) =>
            /\ log[i].err = log[j].err
            /\ Range(log[i].answers) = Range(log[j].answers)

\* ---- the meaning of a sentence, by valuation of its labels ----

\* the sentence s holds when exactly the labels in val hold
RECURSIVE Holds(_, _)
Holds(s, val) ==
    CASE s[1] = "top" -> TRUE
      [] s[1] = "bottom" -> FALSE
      [] s[1] = "label" -> <<s[2], s[3]>> \in val
      [] s[1] = "not" -> ~Holds(s[2], val)
      [] s[1] = "and" -> \A i \in DOMAIN s[2] : Holds(s[2][i], val)
      [] s[1] = "or" -> \E i \in DOMAIN s[2] : Holds(s[2][i], val)

\* the labels of the sentences ss and of the known parts of their partitionings
LabelNames(ss, d) ==
    LET ls == UNION {labels(s) : s \in ss}
    IN ls \cup UNION {{<<l[1], part>> : part \in parts(d, l[1])} : l \in ls}

\* the valuations that respect the mutual exclusions of d: of a partitioning
\* with more than one known part exactly one part holds
Valuations(ss, d) ==
    {val \in SUBSET LabelNames(ss, d) :
        \A l \in LabelNames(ss, d) :
            Cardinality(parts(d, l[1])) > 1 =>
                Cardinality({part \in parts(d, l[1]) : <<l[1], part>> \in val}) = 1}

\* no valuation that respects the mutual exclusions makes s hold
Falsehood(s, d) == \A val \in Valuations({s}, d) : ~Holds(s, val)

\* the labels that hold in the world w
WorldLabels(w) == {<<key, w[key]>> : key \in DOMAIN w}

\* C6: on a negation-free knowledge base and for every world, the base
\* prover run with the checker of that world returns a ground head exactly
\* when the exact prover returns a clause with that head whose sentence holds
\* in that world.
C6_ExactCharacterisesWorlds ==
    \A i, j \in DOMAIN log :
        (/\ log[i].kind = "base" /\ log[i].checker.kind = "world"
         /\ log[j].kind = "exact"
         /\ log[i].db = log[j].db
         /\ log[i].query = log[j].query
         /\ NegationFree(log[i].db)
         /\ log[i].checker.choices \in Worlds(log[i].db)) =>
            /\ log[i].err = ""
            /\ log[j].err = ""
            /\ {h \in Heads(log[i]) : is_grounded(h)}
                 = {h \in Heads(log[j]) : /\ is_grounded(h)
                                          /\ \E k \in DOMAIN log[j].answers :
                                                /\ log[j].answers[k].head = h
                                                /\ Holds(log[j].answers[k].sentence,
                                                         WorldLabels(log[i].checker.choices))}

\* C7: the exact prover returns at most one clause for each head, and the
\* sentence of that clause holds under exactly the valuations under which
\* the sentence of some answer of the root subgoal with that head holds.
C7_OneClausePerHead ==
    \A i \in DOMAIN log :
        (log[i].kind = "exact" /\ log[i].err = "") =>
            /\ Cardinality(Heads(log[i])) = Len(log[i].answers)
            /\ Heads(log[i]) = {c.head : c \in log[i].root}
            /\ \A k \in DOMAIN log[i].answers :
                  \A val \in SUBSET UNION {labels(c.sentence) : c \in log[i].root} :
                      Holds(log[i].answers[k].sentence, val)
                          <=> \E c \in log[i].root : /\ c.head = log[i].answers[k].head
                                                      /\ Holds(c.sentence, val)

\* an exact ask returned one clause for a head that the root subgoal holds
\* two answers for
C7_Witness ==
    \E i \in DOMAIN log :
        /\ log[i].kind = "exact" /\ log[i].err = ""
        /\ Len(log[i].answers) = 1
        /\ \E c1, c2 \in log[i].root : c1 # c2 /\ c1.head = c2.head

\* C8: while an exact ask runs no answer of any subgoal has a sentence that
\* is a falsehood under the mutual exclusions of the knowledge base, no
\* answer returned has one, and a query whose only clauses are facts under a
\* falsehood has no answer.
C8_NoFalsehoodAnswer ==
    /\ (running # <<>> /\ running[1].kind = "exact") =>
          \A tag \in DOMAIN prover["exact"].subgoals :
              \A c \in prover["exact"].subgoals[tag].anss : ~Falsehood(c.sentence, db)
    /\ \A i \in DOMAIN log :
          log[i].kind = "exact" =>
              /\ \A c \in log[i].root \cup Range(log[i].answers) :
                    ~Falsehood(c.sentence, log[i].db)
              /\ (\A c \in Range(clauses(log[i].db, log[i].query)) :
                     c.body = <<>> /\ Falsehood(c.sentence, log[i].db))
                    => log[i].answers = <<>>

\* an exact ask of a fact asserted under x=1 and x=2 has ended with no answer
C8_Witness ==
    \E i \in DOMAIN log :
        /\ log[i].kind = "exact" /\ log[i].err = ""
        /\ log[i].answers = <<>>
        /\ \E c \in Range(clauses(log[i].db, log[i].query)) :
              c.body = <<>> /\ Cardinality(labels(c.sentence)) = 2 /\ Falsehood(c.sentence, log[i].db)

\* C9: if L.unify(R) returns an environment, applying it to both literals
\* gives literals with the same id.
C9_UnifySound ==
    (uRes # <<>> /\ uRes[1].ok) =>
        Literal_id(Literal_subst(uL, uRes[1].env)) = Literal_id(Literal_subst(uR, uRes[1].env))

\* the injective renamings of the variables of a literal
Renamings(l) ==
    {sigma \in [LitVars(l) -> {V.X, V.Y, V.Z, V.A}] :
        \A x, y \in LitVars(l) : sigma[x] = sigma[y] => x = y}

\* equal up to an injective renaming of variables
AlphaEqual(l, r) == \E sigma \in Renamings(l) : Literal_subst(l, sigma) = r

\* C10: two literals have the same tag exactly when they are equal up to an
\* injective renaming of variables, and the tag of a literal is the tag of
\* each of its injective renamings.
C10_TagAlpha ==
    uTag # <<>> =>
        /\ (uTag[1] = uTag[2]) <=> AlphaEqual(uL, uR)
        /\ \A sigma \in Renamings(uL) : Literal_tag(Literal_subst(uL, sigma)) = uTag[1]

\* two different literals with a repeated variable got the same tag
C10_Witness ==
    /\ uTag # <<>>
    /\ uTag[1] = uTag[2]
    /\ uL # uR
    /\ \E i, j \in DOMAIN uL.terms : i # j /\ uL.terms[i] = uL.terms[j] /\ ~is_const(uL.terms[i])


\* ---- worlds.equivalent and worlds.falsehood ----

\* l and r hold under the same valuations that respect the mutual exclusions
SameMeaning(l, r, d) == \A val \in Valuations({l, r}, d) : Holds(l, val) = Holds(r, val)

\* C11: worlds.equivalent(l, r, kb) on ground sentences is true exactly
\* when l and r have the same truth value under every valuation of the
\* labels that satisfies the exclusion matrix of their partitionings, and it
\* is reflexive, symmetric and transitive.
C11_EquivalentSemantic ==
    /\ \A c \in DOMAIN sRes :
          Len(c) = 2 => (sRes[c] <=> SameMeaning(sArgs[c[1]], sArgs[c[2]], db))
    /\ <<1, 1>> \in DOMAIN sRes => sRes[<<1, 1>>]
    /\ {<<1, 2>>, <<2, 1>>} \subseteq DOMAIN sRes => (sRes[<<1, 2>>] <=> sRes[<<2, 1>>])
    /\ {<<1, 2>>, <<2, 3>>, <<1, 3>>} \subseteq DOMAIN sRes =>
          (sRes[<<1, 2>>] /\ sRes[<<2, 3>>] => sRes[<<1, 3>>])

\* three different sentences with labels of different partitionings were
\* found equivalent along a chain
C11_Witness ==
    /\ Len(sArgs) = 3
    /\ {<<1, 2>>, <<2, 3>>, <<1, 3>>} \subseteq DOMAIN sRes
    /\ sRes[<<1, 2>>] /\ sRes[<<2, 3>>] /\ sRes[<<1, 3>>]
    /\ Cardinality({labels(sArgs[1]), labels(sArgs[2]), labels(sArgs[3])} \ {{}}) = 3

\* C12: worlds.falsehood(s, kb) is true exactly when no valuation makes s
\* hold while making exactly one known part hold in every partitioning of s
\* that has more than one known part; x=1 and x=2 is a falsehood, x=1 and
\* y=1 is not, x=1 and not x=1 is.
C12_FalsehoodSemantic ==
    <<1>> \in DOMAIN sRes =>
        /\ sRes[<<1>>] <=> Falsehood(sArgs[1], db)
        /\ sArgs[1] = Conjunction(<<Label(LC("x"), LC(1)), Label(LC("x"), LC(2))>>)
              => sRes[<<1>>]
        /\ sArgs[1] = Conjunction(<<Label(LC("x"), LC(1)), Label(LC("y"), LC(1))>>)
              => ~sRes[<<1>>]
        /\ sArgs[1] = Conjunction(<<Label(LC("x"), LC(1)), Negation(Label(LC("x"), LC(1)))>>)
              => sRes[<<1>>]

\* two parts of one partitioning were found to exclude each other
C12_Witness ==
    /\ <<1>> \in DOMAIN sRes
    /\ sRes[<<1>>]
    /\ sArgs[1] = Conjunction(<<Label(LC("x"), LC(1)), Label(LC("x"), LC(2))>>)


\* ---- the contexts ----

\* the stored facts of the query's predicate whose sentence is one label
LabelledFacts(d, query) ==
    {c \in StoredClauses(d) :
        c.head.pred = query.pred /\ c.body = <<>> /\ c.sentence[1] = "label"}

\* C13: in the deterministic context check(p, v) tells whether choices[p]
\* is v: a clause whose sentence is the single label p=v is admitted exactly
\* when the caller selected the part v for p, and checking a label whose
\* partitioning has no selected part raises an error.
C13_DeterministicCheck ==
    \A i \in DOMAIN log :
        log[i].checker.kind = "deterministic" =>
            \A c \in LabelledFacts(log[i].db, log[i].query) :
                IF c.sentence[2] \in DOMAIN log[i].choices
                THEN /\ log[i].err = ""
                     /\ Fact(c.head) \in Range(log[i].answers)
                            <=> log[i].choices[c.sentence[2]] = c.sentence[3]
                ELSE log[i].err # ""


\* the finished calls of MontecarloContext._ask
McEvents == {i \in DOMAIN trace : trace[i].event = "montecarlo"}

\* the iterations of the call: the asks of the prover it made
Iterations(e) == e.first .. e.last

\* C14: MontecarloContext.ask with N > 0 runs at most N iterations and
\* stops before the N-th only if a tolerance above 0 is set and the
\* estimated error is at most the tolerance; with the tolerance 0 exactly N
\* iterations are run; the note `iterations` is the number of iterations run.
C14_IterationCount ==
    \A i \in McEvents :
        /\ Cardinality(Iterations(trace[i])) <= ctx.number
        /\ trace[i].result.noted
        /\ trace[i].result.iterations = Cardinality(Iterations(trace[i]))
        /\ Cardinality(Iterations(trace[i])) < ctx.number =>
              /\ ctx.approximate # <<>>
              /\ FracLess(Frac(0, 1), ctx.approximate[1])
              /\ FracLeq(trace[i].result.error_squared,
                         FracMul(ctx.approximate[1], ctx.approximate[1]))
        /\ ctx.approximate = <<Frac(0, 1)>> =>
              Cardinality(Iterations(trace[i])) = ctx.number


\* the iterations of the call in which the prover derived the clause
DerivedIn(e, clause) == {k \in Iterations(e) : clause \in Range(log[k].answers)}

\* C15: every answer of MontecarloContext.ask has the probability (number of
\* iterations in which the prover derived it) / (number of iterations run);
\* an answer is counted at most once per iteration and is emitted once, so
\* the probability is above 0 and at most 1.
C15_AnswerFrequency ==
    \A i \in McEvents :
        LET answers == trace[i].result.answers
        IN /\ \A k \in Iterations(trace[i]) : \A a, b \in DOMAIN log[k].answers :
                  log[k].answers[a] = log[k].answers[b] => a = b
           /\ \A a, b \in DOMAIN answers : answers[a].clause = answers[b].clause => a = b
           /\ \A a \in DOMAIN answers :
                 /\ answers[a].probability =
                       << Cardinality(DerivedIn(trace[i], answers[a].clause)),
                          Cardinality(Iterations(trace[i])) >>
                 /\ 0 < answers[a].probability[1]
                 /\ answers[a].probability[1] <= answers[a].probability[2]

\* an answer was derived in some iterations of a call and not in others
C15_Witness ==
    \E i \in McEvents : \E a \in DOMAIN trace[i].result.answers :
        /\ trace[i].result.answers[a].probability[1] < trace[i].result.answers[a].probability[2]
        /\ Cardinality(Iterations(trace[i])) < ctx.number

\* the asks of the prover made by the Monte Carlo context: one per iteration
McAsks == {k \in DOMAIN log : log[k].checker.kind = "montecarlo"}

\* C16: within one Monte Carlo iteration a partitioning is sampled at most
\* once, at its first reference (the choices of the iteration before are
\* gone), and the sampled part is kept until the iteration ends: check(p, v1)
\* and check(p, v2) are never both true in one iteration for different parts.
C16_SampledOnce ==
    \A k \in McAsks :
        LET cs == log[k].checks
        IN /\ \A j \in DOMAIN cs :
                 cs[j].picked <=> (\A n \in 1..(j-1) : cs[n].key # cs[j].key)
           /\ \A j, n \in DOMAIN cs :
                 (cs[j].key = cs[n].key /\ cs[j].val = "True" /\ cs[n].val = "True")
                     => cs[j].part = cs[n].part
           /\ \A j \in DOMAIN cs :
                 /\ cs[j].key \in DOMAIN log[k].choices
                 /\ cs[j].val = PyBool(log[k].choices[cs[j].key] = cs[j].part)

\* two iterations of one call chose different parts of a partitioning that
\* each of them checked twice
C16_Witness ==
    \E k \in McAsks :
        /\ k + 1 \in McAsks
        /\ \E j, n \in DOMAIN log[k + 1].checks :
              /\ j < n
              /\ log[k + 1].checks[j].key = log[k + 1].checks[n].key
              /\ log[k + 1].checks[j].key \in DOMAIN log[k].choices
              /\ log[k].choices[log[k + 1].checks[j].key]
                    # log[k + 1].choices[log[k + 1].checks[j].key]


\* the positions in hooks at which a call of Context.ask begins
AskStarts == {i \in DOMAIN hooks : hooks[i].hook = "ask"}

\* the events of the call that begins at i, up to its end or to now
AskEvents(i) ==
    {j \in DOMAIN hooks : j > i /\ \A k \in AskStarts : k <= i \/ k > j}

\* the call that begins at i has returned or has raised
AskEnded(i) == \E j \in AskEvents(i) : hooks[j].hook \in {"return", "raise"}

\* the calls of the hook of the extension in the call that begins at i
HookCalls(i, hook, name) ==
    {j \in AskEvents(i) : hooks[j].hook = hook /\ hooks[j].name = name}

\* the before_ask handlers of the extension ran to their end in that call
BeforeRan(i, name) ==
    \E j \in HookCalls(i, "before_ask", name) :
        ~(j + 1 \in DOMAIN hooks /\ hooks[j + 1].hook = "raise")

\* C17: before_ask and after_ask come in pairs, also on failure: when the
\* before_ask of an extension has run, its after_ask runs exactly once
\* before ask returns or passes its error on, also when the prover or the
\* before_ask of a later extension raises.
C17_HooksPaired ==
    \A i \in AskStarts :
        AskEnded(i) =>
            \A name \in {"e1", "e2"} :
                /\ BeforeRan(i, name) => Cardinality(HookCalls(i, "after_ask", name)) = 1
                /\ Cardinality(HookCalls(i, "after_ask", name))
                      <= Cardinality(HookCalls(i, "before_ask", name))

-----------------------------------------------------------------------------

\* the calls of perform that trace records
PerformCalls == {i \in DOMAIN trace : trace[i].event = "perform"}

\* the events that follow call i before the caller performs its next action
Within(i) ==
    {j \in DOMAIN trace : j > i /\ \A t \in i+1..j : ~(trace[t].event = "perform" /\ trace[t].depth = 0)}

\* the returns at the depth of call i: the first is the return of call i
Dones(i) == {j \in Within(i) : trace[j].event = "done" /\ trace[j].depth = trace[i].depth}

HasReturned(i) == Dones(i) # {}

ReturnOf(i) == CHOOSE j \in Dones(i) : \A k \in Dones(i) : j <= k

\* the calls of perform that call i made itself, before the event at `last`
ChildCalls(i, last) ==
    {k \in PerformCalls : i < k /\ k < last /\ k \in Within(i) /\ trace[k].depth = trace[i].depth + 1}

RECURSIVE Ascending(_)
Ascending(S) ==
    IF S = {} THEN <<>>
    ELSE <<CHOOSE x \in S : \A y \in S : x <= y>>
         \o Ascending(S \ {CHOOSE x \in S : \A y \in S : x <= y})

\* the actions call i performed, in the order it performed them
Performed(i, last) ==
    [n \in 1..Cardinality(ChildCalls(i, last)) |-> trace[Ascending(ChildCalls(i, last))[n]].action]

\* the Result a generator got from context.ask
ResultOf(i) ==
    trace[CHOOSE j \in Within(i) :
            /\ trace[j].event = "result" /\ trace[j].depth = trace[i].depth
            /\ \A k \in i+1..j-1 : ~(trace[k].event = "result" /\ trace[k].depth = trace[i].depth)].result

\* an answer with probability 1.0 or none and with the sentence Top
Guaranteed(answer) ==
    /\ answer.probability = <<>> \/ answer.probability[1] = answer.probability[2]
    /\ answer.clause.sentence = Top

\* the children of the generator, substituted for each guaranteed answer
Generated(a, answers) ==
    Flatten([k \in DOMAIN answers |->
                IF Guaranteed(answers[k])
                THEN [c \in DOMAIN a.children |->
                         Action_substitute(a.children[c],
                                           Literal_unify(a.query_clause.head,
                                                         answers[k].clause.head).env)]
                ELSE <<>>])

\* C18: a GeneratorAction.perform that returns has performed its children,
\* substituted with the environment of unifying the query head with the
\* answer head, once for every answer of its query whose probability is 1.0
\* or none and whose sentence is Top, and nothing else; in every context,
\* the Monte Carlo context with more than one iteration included.
C18_GeneratorPerforms ==
    \A i \in PerformCalls :
        trace[i].action.act = "generator" /\ HasReturned(i) =>
            Performed(i, ReturnOf(i)) = Generated(trace[i].action, ResultOf(i).answers)

-----------------------------------------------------------------------------

\* the caller's actions after call i
LaterTops(i) == {t \in DOMAIN trace : t > i /\ trace[t].event = "perform" /\ trace[t].depth = 0}

\* call i ended with an exception: it has not returned, and no frame is left
\* or the caller has gone on to its next action
Failed(i) == ~HasReturned(i) /\ (xctl = <<>> \/ LaterTops(i) # {})

\* the knowledge base the caller finds after call i
DbAfter(i) ==
    IF LaterTops(i) = {} THEN db
    ELSE trace[CHOOSE t \in LaterTops(i) : \A u \in LaterTops(i) : t <= u].db

\* the end of call i in trace: its return, or the end of the caller's action
EndOf(i) == IF HasReturned(i) THEN ReturnOf(i) ELSE Len(trace) + 1

\* the knowledge base an assert, a retract or a query leaves
Effect(d, a) ==
    CASE a.act = "assert" -> assert_clause(d, a.clause).db
      [] a.act = "retract" -> retract_clause(d, a.clause)
      [] OTHER -> d

\* the contract of CompoundAction.perform for call i, with the children of
\* the classes in `atomic` taken to leave the knowledge base unchanged when
\* they raise
CompoundContract(i, atomic) ==
    LET children == trace[i].action.children
        calls == Ascending(ChildCalls(i, EndOf(i)))
        n == Len(calls)
    IN \* the children are performed in list order
       /\ n <= Len(children)
       /\ \A j \in 1..n : trace[calls[j]].action = children[j]
       \* a child is performed when the one before it has returned, on the
       \* knowledge base that one left
       /\ n > 0 => trace[calls[1]].db = trace[i].db
       /\ \A j \in 1..n-1 :
             /\ HasReturned(calls[j])
             /\ ReturnOf(calls[j]) < calls[j+1]
             /\ trace[calls[j+1]].db = trace[ReturnOf(calls[j])].db
       /\ \A j \in 1..n :
             HasReturned(calls[j]) /\ children[j].act \in {"assert", "retract", "query"} =>
                trace[ReturnOf(calls[j])].db = Effect(trace[calls[j]].db, children[j])
       \* the compound returns after its last child, with that child's result
       /\ HasReturned(i) =>
             /\ n = Len(children)
             /\ n > 0 => HasReturned(calls[n]) /\ ReturnOf(calls[n]) < ReturnOf(i)
             /\ trace[ReturnOf(i)].db = (IF n = 0 THEN trace[i].db ELSE trace[ReturnOf(calls[n])].db)
             /\ trace[ReturnOf(i)].value = (IF n = 0 THEN None ELSE trace[ReturnOf(calls[n])].value)
       \* child n raised: the caller gets the error and finds the knowledge
       \* base as children 1..n-1 left it
       /\ Failed(i) =>
             /\ n > 0 /\ Failed(calls[n])
             /\ LaterTops(i) = {} => xres # <<>> /\ xres[1].raised # ""
             /\ children[n].act \in atomic => DbAfter(i) = trace[calls[n]].db

CompoundCalls == {i \in PerformCalls : trace[i].action.act = "compound"}

\* C19: CompoundAction.perform performs its children in list order, each on
\* the knowledge base the one before left, and returns the result of the
\* last child.  If child k raises, the caller gets the error, no child after
\* k is performed, the effects of children 1..k-1 remain, and child k leaves
\* the knowledge base unchanged when it is an assert, a retract or a query.
C19_CompoundSequence ==
    \A i \in CompoundCalls : CompoundContract(i, {"assert", "retract", "query"})

\* a batch failed at its second child of three, an assert, after its first
\* child changed the knowledge base
C19_Witness ==
    \E i \in CompoundCalls :
        /\ Failed(i) /\ xctl = <<>>
        /\ Len(trace[i].action.children) > Cardinality(ChildCalls(i, EndOf(i)))
        /\ Cardinality(ChildCalls(i, EndOf(i))) > 1
        /\ trace[i].action.children[Cardinality(ChildCalls(i, EndOf(i)))].act = "assert"
        /\ db # trace[i].db

\* C19 as first stated: child k leaves the knowledge base unchanged whatever
\* its class, a batch or a generator included.
C19_ChildUnchanged ==
    \A i \in CompoundCalls :
        CompoundContract(i, {"assert", "retract", "query", "compound", "generator"})

-----------------------------------------------------------------------------

\* C20: every clause that kb.clauses yields, from the primitive =/2 or from
\* the asserted clauses, is safe; one with an empty body has a ground head.
C20_YieldedClausesSafe ==
    kbOp.op = "clauses" =>
        \A c \in Range(kbOp.yielded) :
            /\ SafeClause(c)
            /\ ClauseLits(c) = <<>> => is_grounded(c.head)

-----------------------------------------------------------------------------

\* the generators registered for a predicate, in the order of registration
RegisteredFor(pred) ==
    LET at == Ascending({i \in DOMAIN registered : registered[i][1] = pred})
    IN [n \in DOMAIN at |-> registered[at[n]][2]]

\* C21: kb.clauses yields the outputs of every primitive registered for the
\* literal's predicate, concatenated in the order of registration, and
\* after them the asserted clauses of the predicate.
C21_PrimitivesFused ==
    kbOp.op = "clauses" =>
        kbOp.yielded =
            Flatten([n \in DOMAIN RegisteredFor(kbOp.clause.head.pred) |->
                        Generate(RegisteredFor(kbOp.clause.head.pred)[n], kbOp.clause.head)])
            \o (IF kbOp.clause.head.pred \in DOMAIN db THEN db[kbOp.clause.head.pred] ELSE <<>>)

-----------------------------------------------------------------------------

\* the ids of the clauses a knowledge base stores
StoredIds(d) == {Clause_id(c) : c \in StoredClauses(d)}

\* the clauses of pred in d but for the one with the id of clause
Without(d, pred, clause) ==
    LET Other(x) == Clause_id(x) # Clause_id(clause)
    IN IF pred \in DOMAIN d THEN SelectSeq(d[pred], Other) ELSE <<>>

\* C22: retract_clause removes the stored clause with the id of its
\* argument and nothing else, raises nothing, and leaves no predicate with
\* an empty entry; retracting a clause whose id is not stored changes
\* nothing; and asserting a clause whose id is not stored and retracting it
\* again gives the knowledge base there was before.
C22_RetractInverse ==
    /\ \A pred \in DOMAIN db : db[pred] # <<>>
    /\ kbOp.op = "retract" =>
          /\ ~kbOp.raised
          /\ DOMAIN db = {pred \in DOMAIN kbPrev : Without(kbPrev, pred, kbOp.clause) # <<>>}
          /\ \A pred \in DOMAIN db : db[pred] = Without(kbPrev, pred, kbOp.clause)
          /\ Clause_id(kbOp.clause) \notin StoredIds(kbPrev) => db = kbPrev
    /\ \A c \in RetractProgram :
          Clause_id(c) \notin StoredIds(db) /\ ~assert_clause(db, c).raised =>
             /\ Clause_id(c) \in StoredIds(assert_clause(db, c).db)
             /\ retract_clause(assert_clause(db, c).db, c) = db

\* the only clause of a predicate was retracted, with other predicates
\* stored, and the predicate has no entry left
C22_Witness ==
    /\ kbOp.op = "retract"
    /\ kbOp.clause.head.pred \in DOMAIN kbPrev
    /\ kbOp.clause.head.pred \notin DOMAIN db
    /\ DOMAIN db # {}

\* the ask reached a clause whose selected literal is negative
ReachedNegative(evs) ==
    \E e \in evs : e.event = "select" /\ e.selected # <<>> /\ ~e.selected[1].polarity

\* the exact ask that runs has not yet looked at a clause
ExactStarting ==
    /\ running # <<>>
    /\ running[1].kind = "exact"
    /\ ctl = <<SubgoalCall(running[1].query, 1, clauses(db, running[1].query))>>

\* the tables hold the root subgoal of the query and nothing else
CleanTables(p, query) ==
    /\ DOMAIN p.subgoals = {Literal_tag(query)}
    /\ p.subgoals[Literal_tag(query)].anss = {}
    /\ p.subgoals[Literal_tag(query)].poss = <<>>
    /\ p.subgoals[Literal_tag(query)].negs = <<>>
    /\ ~p.subgoals[Literal_tag(query)].comp
    /\ Len(p.stack) = 1
    /\ p.stack[1].dfn = 1
    /\ p.count = 2

\* C23: an exact ask that reaches a clause whose selected literal is negative
\* fails with an error and returns no answers; the ask that follows on the same
\* prover starts with the tables holding its root subgoal only and one frame,
\* and gives what the same ask gives on the same knowledge base at any other
\* time.
C23_ExactNegationFails ==
    /\ \A i \in DOMAIN log :
          log[i].kind = "exact" /\ ReachedNegative(log[i].events)
              => log[i].err # "" /\ log[i].answers = <<>>
    /\ ExactStarting => CleanTables(prover["exact"], running[1].query)
    /\ \A i, j \in DOMAIN log :
          /\ log[i].kind = "exact"
          /\ log[j].kind = "exact"
          /\ log[i].db = log[j].db
          /\ log[i].query = log[j].query
          => log[i].err = log[j].err /\ log[i].answers = log[j].answers

\* an exact ask failed on a negative literal with answers of u(X) in the table,
\* and the ask after it returned both answers of w(X)
C23_Witness ==
    /\ Len(log) >= 2
    /\ log[1].kind = "exact"
    /\ ReachedNegative(log[1].events)
    /\ log[1].err # ""
    /\ log[2].kind = "exact"
    /\ log[2].query = Lit("w", <<V.X>>)
    /\ Len(log[2].answers) = 2

\* slg_newclause was called for the subgoal of literal with the clause
Continued(literal, clause) ==
    \E s \in events : s.event = "select" /\ s.literal = literal /\ s.clause = clause

\* the waiter of event e was continued as the completed subgoal sg asks for
ContinuedAsCompleted(e, sg) ==
    IF sg.anss = {}
    THEN Continued(e.literal, clause_remove_lit(e.clause, invert(sg.literal)))
    ELSE Fact(sg.literal) \notin sg.anss
            => Continued(e.literal, clause_delay_lit(e.clause, invert(sg.literal)))

\* C24: when an ask of the base prover has returned, every clause that was
\* registered as a negative waiter on a subgoal that is completed has been
\* continued through slg_newclause: with the negative literal removed if the
\* subgoal has no answers, with the literal delayed if it has conditional
\* answers only.
C24_NegativeWaitersContinued ==
    running = <<>> /\ log # <<>> /\ log[Len(log)].kind = "base" /\ log[Len(log)].err = ""
        => \A e \in events :
              e.event = "waits"
                  => LET tag == Literal_tag(e.selected[1])
                     IN tag \in DOMAIN prover["base"].subgoals
                        /\ (prover["base"].subgoals[tag].comp
                               => ContinuedAsCompleted(e, prover["base"].subgoals[tag]))

\* sel is what the claim has selected in body
SelectedInOrder(body, sel) ==
    IF body = <<>> THEN sel = <<>>
    ELSE /\ Len(sel) = 1
         /\ \E i \in DOMAIN body :
               /\ body[i] = sel[1]
               /\ IF sel[1].polarity
                  THEN \A j \in 1..(i - 1) : ~body[j].polarity
                  ELSE /\ \A j \in DOMAIN body : ~body[j].polarity
                       /\ IF is_grounded(sel[1])
                          THEN \A j \in 1..(i - 1) : ~is_grounded(body[j])
                          ELSE i = 1 /\ \A j \in DOMAIN body : ~is_grounded(body[j])

\* the body has literals, all of them negative and none of them ground
OnlyNonGroundNegatives(body) ==
    body # <<>> /\ \A j \in DOMAIN body : ~body[j].polarity /\ ~is_grounded(body[j])

\* the events evs of an ask that ended, or has got so far, with the error er
SelectsInOrder(evs, er) ==
    \A e \in evs :
        /\ e.event = "select" => SelectedInOrder(e.clause.body, e.selected)
        /\ e.event = "negative" => is_grounded(e.selected[1])
        /\ e.event = "select" /\ OnlyNonGroundNegatives(e.clause.body)
              => /\ er # ""
                 /\ \A n \in evs : n.event = "negative" => n.clause # e.clause

\* C25: slg_newclause selects the first positive body literal if there is one,
\* otherwise the first ground negative one, otherwise the first literal;
\* slg_negative is called on ground literals only; and an ask that reaches a
\* clause whose body has only non-ground negative literals fails with an error
\* and does not resolve the clause.
C25_SelectOrder ==
    /\ running # <<>> => SelectsInOrder(events, err)
    /\ \A i \in DOMAIN log : SelectsInOrder(log[i].events, log[i].err)

\* one ask selected a positive literal behind a negative one and a ground
\* negative one, and an ask reached a clause with a non-ground negative body
C25_Witness ==
    /\ \E i \in DOMAIN log : \E e \in log[i].events :
          e.event = "select" /\ Len(e.clause.body) >= 2 /\ ~e.clause.body[1].polarity
              /\ e.selected[1].polarity
    /\ \E i \in DOMAIN log : \E e \in log[i].events : e.event = "negative"
    /\ \E i \in DOMAIN log : \E e \in log[i].events :
          e.event = "select" /\ OnlyNonGroundNegatives(e.clause.body) /\ log[i].err # ""

\* the stack and the table of the prover p agree
TablesConsistent(p) ==
    /\ \A t \in DOMAIN p.subgoals :
          (\E i \in DOMAIN p.stack : p.stack[i].subgoal = t) <=> ~p.subgoals[t].comp
    /\ \A i \in DOMAIN p.stack : p.stack[i].subgoal \in DOMAIN p.subgoals
    /\ \A i, j \in DOMAIN p.stack : i < j => p.stack[i].subgoal # p.stack[j].subgoal
    /\ \A i, j \in DOMAIN p.stack : i < j => p.stack[i].dfn < p.stack[j].dfn
    /\ \A i \in DOMAIN p.stack : p.stack[i].dfn < p.count
    /\ \A i \in DOMAIN p.stack : p.stack[i].poslink <= p.stack[i].dfn

\* C26: while an ask runs, a subgoal has a frame on the stack exactly if it is
\* in the table and not completed, no subgoal has two frames, the dfn values
\* grow strictly from the bottom of the stack and stay below count, poslink is
\* at most dfn, and no ask fails on a frame look-up or a table look-up.
C26_StackTableConsistent ==
    /\ running # <<>> => /\ TablesConsistent(prover[running[1].kind])
                         /\ err \notin {"AssertionError", "KeyError"}
    /\ \A i \in DOMAIN log : log[i].err \notin {"AssertionError", "KeyError"}

\* an ask is running with three frames, one of them linked to a lower frame by
\* update_lookup, next to a completed subgoal
C26_Witness ==
    /\ running # <<>>
    /\ Len(prover["base"].stack) >= 3
    /\ \E i \in DOMAIN prover["base"].stack :
          prover["base"].stack[i].poslink < prover["base"].stack[i].dfn
    /\ \E i \in DOMAIN prover["base"].stack : prover["base"].stack[i].neglink # Inf
    /\ \E t \in DOMAIN prover["base"].subgoals : prover["base"].subgoals[t].comp

\* the last ask has returned without an error
AskReturned ==
    running = <<>> /\ log # <<>> /\ log[Len(log)].err = ""

\* the stack of the prover p is empty and every subgoal in its table completed
AllCompleted(p) ==
    p.stack = <<>> /\ \A t \in DOMAIN p.subgoals : p.subgoals[t].comp

FedWith(e, answer) ==
    \E f \in events :
        /\ f.event \in {"resolve", "factor"}
        /\ f.literal = e.literal
        /\ f.clause = e.clause
        /\ f.selected = <<answer.head>>

\* C28: when an ask of the base prover has returned, every clause for which
\* slg_newclause selected a positive literal has been resolved or factored, with
\* the result handed to slg_newclause, with every answer that the subgoal of
\* that literal holds.
C28_NoAnswerLost ==
    AskReturned /\ log[Len(log)].kind = "base"
        => \A e \in events :
              e.event = "select" /\ e.selected # <<>> /\ e.selected[1].polarity
                  => /\ Literal_tag(e.selected[1]) \in DOMAIN prover["base"].subgoals
                     /\ \A answer \in prover["base"].subgoals[Literal_tag(e.selected[1])].anss :
                           FedWith(e, answer)

\* the left recursive clause waited on its own subgoal path(a, Y) and met three
\* answers, found after it started waiting; in another ask a clause was factored
\* with a conditional answer
C28_Witness ==
    /\ AskReturned
    /\ \E i \in DOMAIN log : \E f \in log[i].events : f.event = "factor"
    /\ \E e \in events :
          /\ e.event = "select"
          /\ e.selected # <<>>
          /\ e.selected[1].polarity
          /\ Literal_tag(e.literal) = Literal_tag(e.selected[1])
          /\ Cardinality(prover["base"].subgoals[Literal_tag(e.selected[1])].anss) = 3
          /\ \A answer \in prover["base"].subgoals[Literal_tag(e.selected[1])].anss :
                FedWith(e, answer)

\* C29: every answer clause in the tables of the exact prover carries a ground
\* sentence, and no exact ask fails on the assertion of worlds.equivalent that
\* the sentences it compares are ground.
C29_AnswerSentencesGround ==
    /\ \A t \in DOMAIN prover["exact"].subgoals :
          \A answer \in prover["exact"].subgoals[t].anss :
              Sentence_is_grounded(answer.sentence)
    /\ running # <<>> /\ running[1].kind = "exact" => err # "AssertionError"
    /\ \A i \in DOMAIN log : log[i].kind = "exact" => log[i].err # "AssertionError"

\* no handler of an extension of the context raises
QuietExtensions ==
    \A k \in DOMAIN ctx.extensions :
        ~ctx.extensions[k].before_raises /\ ~ctx.extensions[k].after_raises

\* the names of the extensions the context uses
ExtensionNames == {ctx.extensions[k].name : k \in DOMAIN ctx.extensions}

\* the call of Context.ask that began last
LastAsk == CHOOSE i \in AskStarts : \A k \in AskStarts : k <= i

\* C30: in every context class, when no handler raises and no run of the
\* prover raises, a call of ask returns, and has called the before_ask and the
\* after_ask of each extension of the context exactly once; while the prover
\* runs for an ask each before_ask has been called once and no after_ask yet.
C30_HooksOncePerAsk ==
    QuietExtensions =>
        /\ (\A l \in DOMAIN log : log[l].err = "")
              => \A i \in AskStarts :
                    AskEnded(i) =>
                        /\ \A j \in AskEvents(i) : hooks[j].hook # "raise"
                        /\ \A name \in ExtensionNames :
                              /\ Cardinality(HookCalls(i, "before_ask", name)) = 1
                              /\ Cardinality(HookCalls(i, "after_ask", name)) = 1
        /\ running # <<>> /\ xctl # <<>> /\ AskStarts # {}
              => \A name \in ExtensionNames :
                    /\ Cardinality(HookCalls(LastAsk, "before_ask", name)) = 1
                    /\ Cardinality(HookCalls(LastAsk, "after_ask", name)) = 0

====
